---- MODULE Spec2Model ----
(***************************************************************************)
(* Flight driver of the visuo remote control (package fly): the command    *)
(* buffer Cmd, the Driver lifecycle Start/Halt, the 50 Hz radio loop and   *)
(* the deferred flag clears started by tempSetFlag.                        *)
(*                                                                         *)
(* Bytes are integers 0..255.  The buffer is a function over the source's  *)
(* byte indexes 0..7.  Stick arguments (float64 in the source) are given   *)
(* in hundredths: 50 stands for 0.5, -100 for -1.0.  Time is counted in    *)
(* units of half a second: every deadline carries the number of unit       *)
(* boundaries still to pass, a deadline set inside unit n with k units     *)
(* expires inside unit n+k.  The radio ticker (20 ms) is far finer than    *)
(* the unit, so a radio tick may happen at any moment.                     *)
(*                                                                         *)
(* Camera protocol (package vtx): the LeweiCmd codec, the connection with  *)
(* its keep-alive goroutine, Res, Action, DownloadVideo and ReplayVideo.   *)
(* A received payload is the record of the fields its readers take out of  *)
(* it; the frames the drone may send are drawn from finite sets.           *)
(***************************************************************************)
EXTENDS Integers, Sequences, FiniteSets, TLC

(* ---------------------------- bounds ----------------------------------- *)
MaxCalls == 3
MaxTimers == 2
MaxRadios == 2
\* stick arguments explored by SticksSpec: -MaxStick .. MaxStick hundredths
MaxStick == 130
\* writes of the keep-alive goroutine explored on one connection
MaxKeepAlive == 2
\* bytes of slot 3 explored by CodecSpec
MaxPayload == 8
\* connections dialled in one behaviour
MaxConns == 2
\* frames read by one operation
MaxRecv == 3
\* declared file sizes of the end frames explored
MaxSize == 3
\* entries of a response to listVideosCmd
MaxVideos == 2
\* addresses of the host
MaxAddrs == 3

(* ------------------------ program constants ---------------------------- *)
rollByte == 1
pitchByte == 2
throttleByte == 3
yawByte == 4
flagsByte == 5
crcByte == 6

takeOffFlag == 1
landFlag == 2
stopFlag == 4
flipFlag == 8
compassFlag == 16
photoFlag == 32
videoFlag == 64
gyroFlag == 128

\* time.Second and time.Second / 2 in half-second units
PulseUnits == 2
SleepUnits == 1

(* --------------------------- input sets -------------------------------- *)
Callers == {"main"}

\* TakeOff, Land, Stop, Flip, TakePhoto, CaptureVideo and Calibrate are the same
\* call, d.cmd.tempSetFlag(flag, time.Second), with seven flags; the calls
\* explored are TakeOff (lowest bit), Flip and Calibrate (highest bit)
PulseFlags == {takeOffFlag, flipFlag, gyroFlag}

\* Sticks(up, rotate, forwards, sideways), in hundredths
StickInputs == { <<50, -50, 100, -100>>, <<-250, 0, 25, 300>> }

\* GoXxx(speed), in hundredths
Speeds == {50}

GoDirs == {"Up", "Down", "Right", "Left", "Forward", "Backward",
           "Clockwise", "CounterClockwise"}

\* DoBackFlip, DoFrontFlip, DoLeftFlip, DoRightFlip: the GoXxx each one calls
FlipDirs == {"Backward", "Forward", "Left", "Right"}

\* the speed the DoXxxFlip methods hand to GoXxx: 100, in hundredths 10000
FlipSpeed == 10000

\* values of Driver.onError: nil (never registered), a callback that returns,
\* a callback that blocks and never returns
Callbacks == {"returns", "blocks"}

(* ----------------------------- bytes ----------------------------------- *)
Pow2(i) == 2 ^ i

BitAt(b, i) == (b \div Pow2(i)) % 2

\* a | b on bytes
BitOr(a, b) ==
    LET w(i) == IF BitAt(a, i) = 1 \/ BitAt(b, i) = 1 THEN Pow2(i) ELSE 0
    IN  w(0) + w(1) + w(2) + w(3) + w(4) + w(5) + w(6) + w(7)

\* a &^ b on bytes
BitAndNot(a, b) ==
    LET w(i) == IF BitAt(a, i) = 1 /\ BitAt(b, i) = 0 THEN Pow2(i) ELSE 0
    IN  w(0) + w(1) + w(2) + w(3) + w(4) + w(5) + w(6) + w(7)

HasFlag(b, flag) == BitAndNot(flag, b) = 0

\* a normalize that rounds val*127 to the nearest integer, halves away from zero
normalizeRound(v) ==
    LET c == IF v > 100 THEN 100 ELSE IF v < -100 THEN -100 ELSE v
    IN  IF c >= 0
        THEN 128 + ((c * 127 + 50) \div 100)
        ELSE 128 - ((-c * 127 + 50) \div 100)

\* a normalize that rounds val*127 toward zero before adding it to 128
normalizeTowardZero(v) ==
    LET c == IF v > 100 THEN 100 ELSE IF v < -100 THEN -100 ELSE v
    IN  IF c >= 0
        THEN 128 + ((c * 127) \div 100)
        ELSE 128 - ((-c * 127) \div 100)

\* normalize(val): val clamped to [-1, +1], then byte(128 + val*127); the
\* float64 to byte conversion drops the fraction of the (positive) sum
normalize(v) ==
    LET c == IF v > 100 THEN 100 ELSE IF v < -100 THEN -100 ELSE v
    IN  (12800 + c * 127) \div 100

\* one turn of the inner loop of crc:
\* crc = (crc << 1) + (crc >> 7) ^ (byt >> i & 1)
crcBit(c, byt, i) ==
    LET r == ((c * 2) % 256) + (c \div 128)
    IN  IF BitAt(byt, i) = 1
        THEN (IF r % 2 = 0 THEN r + 1 ELSE r - 1)
        ELSE r

\* the inner loop of crc over the bits i = 7 .. 0 of one byte, for every
\* value of crc and of the byte
crcBits ==
    [c \in 0..255 |-> [byt \in 0..255 |->
        LET f[n \in 0..8] == IF n = 0 THEN c ELSE crcBit(f[n - 1], byt, 8 - n)
        IN  f[8]]]

\* crc(bytes): crc := ^byte(0), then the outer loop over the bytes in order
crc(bytes) ==
    LET f[k \in 0..8] == IF k = 0 THEN 255 ELSE crcBits[f[k - 1]][bytes[k - 1]]
    IN  f[8]

\* Cmd.isValid
isValid(bytes) ==
    /\ DOMAIN bytes = 0..7
    /\ bytes[0] = 102
    /\ bytes[7] = 153
    /\ crc(bytes) = 0

\* NewCmd
NewCmd == [i \in 0..7 |->
             CASE i = 0 -> 102
               [] i \in 1..4 -> 128
               [] i = 5 -> 0
               [] i = 6 -> 0
               [] OTHER -> 153]

NoFrame == <<>>

(* ------------------- the closures handed to update --------------------- *)
NoArgs == <<0, 0, 0, 0>>

Mut(k, i, v) == [k |-> k, i |-> i, v |-> v]

NoMut == Mut("none", 0, NoArgs)

\* a reset that puts the sticks back to neutral and keeps the flags
resetSticksOnly == Mut("hover", 0, NoArgs)

\* Driver.reset
resetMut == Mut("reset", 0, NoArgs)

\* a Hover that rewrites the whole command as reset does
hoverAsReset == Mut("reset", 0, NoArgs)

\* Driver.Hover
hoverMut == Mut("hover", 0, NoArgs)

\* a Sticks that rewrites the whole command as reset does
sticksMutAsReset(args) == Mut("reset", 0, args)

\* Driver.Sticks(up, rotate, forwards, sideways)
sticksMut(args) == Mut("sticks", 0, args)

\* Cmd.setFlag / Cmd.clearFlag
setFlagMut(flag) == Mut("set", flag, NoArgs)

\* a clearFlag that clears the whole flags byte
clearFlagMutAll(flag) == Mut("clear", 255, NoArgs)

\* a clearFlag that clears the bits of all momentary flags
clearFlagMutMomentary(flag) == Mut("clear", 255 - compassFlag, NoArgs)

clearFlagMut(flag) == Mut("clear", flag, NoArgs)

\* the first update of GoUp .. GoCounterClockwise
goMut(dir, speed) ==
    CASE dir = "Up"               -> Mut("stick", throttleByte, <<speed, 0, 0, 0>>)
      [] dir = "Down"             -> Mut("stick", throttleByte, <<-speed, 0, 0, 0>>)
      [] dir = "Right"            -> Mut("stick", rollByte, <<speed, 0, 0, 0>>)
      [] dir = "Left"             -> Mut("stick", rollByte, <<-speed, 0, 0, 0>>)
      [] dir = "Forward"          -> Mut("stick", pitchByte, <<speed, 0, 0, 0>>)
      [] dir = "Backward"         -> Mut("stick", pitchByte, <<-speed, 0, 0, 0>>)
      [] dir = "Clockwise"        -> Mut("stick", yawByte, <<-speed, 0, 0, 0>>)
      [] dir = "CounterClockwise" -> Mut("stick", yawByte, <<speed, 0, 0, 0>>)

\* f(c.data) for the closure m
ApplyMut(m, d) ==
    CASE m.k = "reset"  -> [d EXCEPT ![1] = normalize(0), ![2] = normalize(0),
                                     ![3] = normalize(0), ![4] = normalize(0),
                                     ![5] = 0]
      [] m.k = "hover"  -> [d EXCEPT ![rollByte] = normalize(0),
                                     ![pitchByte] = normalize(0),
                                     ![throttleByte] = normalize(0),
                                     ![yawByte] = normalize(0)]
      [] m.k = "sticks" -> [d EXCEPT ![rollByte] = normalize(m.v[4]),
                                     ![pitchByte] = normalize(m.v[3]),
                                     ![throttleByte] = normalize(m.v[1]),
                                     ![yawByte] = normalize(m.v[2])]
      [] m.k = "stick"  -> [d EXCEPT ![m.i] = normalize(m.v[1])]
      [] m.k = "set"    -> [d EXCEPT ![flagsByte] = BitOr(d[flagsByte], m.i)]
      [] m.k = "clear"  -> [d EXCEPT ![flagsByte] = BitAndNot(d[flagsByte], m.i)]
      [] OTHER          -> d

\* an update that leaves the old CRC byte in place while the new one is computed
updateBodyNoZero(m, d) == ApplyMut(m, d)

\* Cmd.update, after c.Lock(): f(c.data); c.data[crcByte] = 0
updateBody(m, d) == [ApplyMut(m, d) EXCEPT ![crcByte] = 0]

\* Cmd.update: c.data[crcByte] = crc(c.data), before c.Unlock()
updateCrc(d) == [d EXCEPT ![crcByte] = crc(d)]

(* ----------------------------- state ----------------------------------- *)
VARIABLES
    data,      \* Cmd.data
    api,       \* the calling goroutine of every caller: the call it is in and where
    timers,    \* the time.AfterFunc timers of tempSetFlag and their goroutines
    radio,     \* the goroutines started by radioLoop, each with its connection
    enabled,   \* Driver.enabled
    derr,      \* Driver.err
    onError,   \* Driver.onError
    dmu,       \* Driver.Mutex: "free" or the caller holding it
    crashed,   \* an unrecovered panic has ended the process
    lastLife,  \* history: the last of Start and Halt that has returned
    calls,     \* history: the number of API calls made since the initial state
    vtx,       \* package vtx: the operation in progress and its TCP connection
    lewei,     \* package vtx: the LeweiCmd under construction
    cam        \* package vtx: the call of actions.go or of getLocalIP in progress

vars == <<data, api, timers, radio, enabled, derr, onError, dmu, crashed,
          lastLife, calls, vtx, lewei, cam>>

Timers == 1..MaxTimers
Radios == 1..MaxRadios

\* a caller: the call it is in (op), the statement it is at (at), the closure
\* it hands to update (m), the units left of its time.Sleep (left), the result
\* of its branch (note), and what held when the call was made: the last of
\* Start and Halt to return was not Start (idle), the buffer was not neutral
\* (dirty), no deferred clear of the call's flag was outstanding (alone)
Idle == [op |-> "none", at |-> "idle", m |-> NoMut, left |-> 0,
         idle |-> FALSE, dirty |-> FALSE, alone |-> FALSE, note |-> "na"]

\* old (history): a Halt has returned since the timer was started
FreeTimer == [flag |-> 0, left |-> 0, pc |-> "free", old |-> FALSE]

NoRadio == [pc |-> "none", sent |-> NoFrame]

(* ----------------------- package vtx: commands -------------------------- *)
keepAliveCmd == 1

setClockCmd == 4

checkVideoCmd == 6

listVideosCmd == 8

replayVideoCmd == 9

closeCmd == 16

captureVideoCmd == 17

downloadVideoCmd == 18

takePhotoCmd == 19

deleteVideoCmd == 20

videoReplayCmd == 259

videoReplayEndCmd == 261

videoDownloadCmd == 262

\* the codes the source lists without a name (0x0002, 0x0003, 0x0101) and zero
UnnamedCmds == {0, 2, 3, 257}

\* Action is exported and takes any uint32
ActionCmds ==
    {keepAliveCmd, setClockCmd, checkVideoCmd, listVideosCmd, replayVideoCmd,
     closeCmd, captureVideoCmd, downloadVideoCmd, takePhotoCmd, deleteVideoCmd,
     videoReplayCmd, videoReplayEndCmd, videoDownloadCmd} \cup UnnamedCmds

(* ------------------------ package vtx: LeweiCmd ------------------------- *)
cmdI == 0

lenI == 3

\* "lewei_cmd\x00"
LeweiTag == <<108, 101, 119, 101, 105, 95, 99, 109, 100, 0>>

\* binary.LittleEndian.PutUint32
PutUint32(v) ==
    <<v % 256, (v \div 256) % 256, (v \div 65536) % 256, (v \div 16777216) % 256>>

\* binary.LittleEndian.Uint32
Uint32(b) == b[1] + 256 * b[2] + 65536 * b[3] + 16777216 * b[4]

\* headerSet: the four bytes at 10+index*4 (the sequence is indexed from 1)
headerSet(c, index, value) ==
    [c EXCEPT !.header =
        [k \in 1 .. Len(c.header) |->
            IF k - 1 \in 10 + index * 4 .. 13 + index * 4
            THEN PutUint32(value)[k - 10 - index * 4]
            ELSE c.header[k]]]

headerGet(c, index) == Uint32(SubSeq(c.header, 11 + index * 4, 14 + index * 4))

\* make([]byte, 46); copy(header, "lewei_cmd\x00"); headerSet(cmdI, action).
\* action (history) is the argument
NewLeweiCmd(action) ==
    headerSet([header |-> [k \in 1 .. 46 |-> IF k <= 10 THEN LeweiTag[k] ELSE 0],
               payload |-> <<>>, action |-> action],
              cmdI, action)

\* the arguments of AddPayload: nil, a []byte, a []uint32 or a string (its bytes)
Nil == [kind |-> "nil", val |-> <<>>]

PayloadInputs ==
    {Nil,
     [kind |-> "bytes", val |-> <<>>], [kind |-> "bytes", val |-> <<7, 8>>],
     [kind |-> "uint32s", val |-> <<258>>], [kind |-> "uint32s", val |-> <<1, 0>>],
     [kind |-> "string", val |-> <<>>], [kind |-> "string", val |-> <<97>>]}

Flatten(seqs) ==
    LET f[k \in 0 .. Len(seqs)] == IF k = 0 THEN <<>> ELSE f[k - 1] \o seqs[k]
    IN f[Len(seqs)]

\* binary.Write(&c.payload, binary.LittleEndian, data): a byte slice is written
\* as it is, a uint32 slice element by element; a string is not a fixed-size
\* value, for it binary.Write returns an error and writes nothing
binaryWrite(buf, arg) ==
    CASE arg.kind = "bytes" -> buf \o arg.val
      [] arg.kind = "uint32s" ->
            buf \o Flatten([k \in 1 .. Len(arg.val) |-> PutUint32(arg.val[k])])
      [] OTHER -> buf

\* the sum stays far below 2^32 for the payloads explored
addLen(c, l) == headerSet(c, lenI, l + headerGet(c, lenI))

AddPayloadOf(c, arg) ==
    IF arg.kind = "nil" THEN c
    ELSE LET w == [c EXCEPT !.payload = binaryWrite(c.payload, arg)]
         IN CASE arg.kind \in {"string", "bytes"} -> addLen(w, Len(arg.val))
              [] arg.kind = "uint32s" -> addLen(w, Len(arg.val) * 4)

\* the mapping without its keep-alive case
portByCmdNoKeepAlive(cmd) ==
    IF cmd \in {replayVideoCmd, downloadVideoCmd} THEN 7060 ELSE 8060

portByCmd(cmd) ==
    IF cmd \in {replayVideoCmd, downloadVideoCmd, keepAliveCmd} THEN 7060 ELSE 8060

\* a response payload as its readers take it apart: the uint32 at bytes 0..3
\* (type), at 4..7 (csize) and at 8..11 (fsize), the name at bytes 16..115, the
\* ff marker of a replay chunk and the content (the chunk of a download frame,
\* the replay content from offset 8 on); empty is the payload of no bytes
EmptyPl == [empty |-> TRUE, type |-> 0, csize |-> 0, fsize |-> 0, name |-> 0,
            ff |-> 0, body |-> <<>>]

Pl(type, fsize, name, ff, body) ==
    [empty |-> FALSE, type |-> type, csize |-> Len(body), fsize |-> fsize,
     name |-> name, ff |-> ff, body |-> body]

\* what recv returns: the command in slot 0, the payload, whether the read
\* failed (recv then returns the zeroed command it started from), and whether
\* the first ten bytes read into the header are "lewei_cmd\x00" (tag)
Frame(cmd, pl) == [cmd |-> cmd, pl |-> pl, err |-> FALSE, tag |-> TRUE]

ReadError == [cmd |-> 0, pl |-> EmptyPl, err |-> TRUE, tag |-> TRUE]

NoLewei == [cmd |-> 0, pl |-> EmptyPl, err |-> FALSE, tag |-> TRUE]

\* a connection: the socket (st), the goroutine of keepAlive (ka) and the
\* number of conn.Close() calls made on it
NoConn == [st |-> "none", ka |-> "none", closes |-> 0]

Conns == 1 .. MaxConns

\* the file name given to DownloadVideo and ReplayVideo, and another one
RequestedName == 1

OtherName == 2

\* an operation of package vtx: the function called (op), the statement it is
\* at (pc), the command handed to portByCmd (dial), the command of its request
\* (cmd), whether a callback was given (cb), the command Res waits for (want),
\* the remote port of its connection (port, 0 without a connection), the
\* commands whose header was written to the connection so far (sent), the
\* writes made on the connection in their order (wire), how the call ended (out,
\* why), the calls of the callback (cbs) and the payload handed to it (got),
\* the frame read last (last), the frames read (nrecv), the connections
\* dialled so far (conn, the last being the operation's own), the connections
\* (conns), the output file of DownloadVideo on disk (file), its handle (fopen,
\* fpos), bytesLoaded (loaded) and what ReplayVideo wrote to output (sink);
\* history of DownloadVideo: the types of the download frames with the
\* requested name that it took from Res (types) and their chunks, one after
\* the other (cat)
VtxIdle == [op |-> "none", pc |-> "idle", dial |-> 0, cmd |-> 0, port |-> 0,
            sent |-> <<>>, cb |-> FALSE, want |-> 0, out |-> "none",
            why |-> "none", cbs |-> 0, got |-> EmptyPl, last |-> NoLewei,
            nrecv |-> 0, conn |-> 0, conns |-> [c \in Conns |-> NoConn],
            file |-> <<>>, fopen |-> FALSE, fpos |-> 0, loaded |-> 0,
            sink |-> <<>>, types |-> <<>>, cat |-> <<>>, wire |-> <<>>]

\* a call of actions.go or of getLocalIP: the function called (op), the
\* statement it is at (pc), how it ended (out), the slice ListVideos returns
\* (videos), whether StartVideo or StopVideo is running (phase); history: the
\* entries the drone listed (listed), the bytes that followed them in the
\* payload (tail), and what the call did on the network and when it slept
\* (log); for newConn the addresses of the host (addrs) and the local address
\* it dials from (laddr)
CamIdle == [op |-> "none", pc |-> "idle", out |-> "none", videos |-> <<>>,
            phase |-> "none", listed |-> <<>>, tail |-> <<>>, log |-> <<>>,
            addrs |-> <<>>, laddr |-> <<>>]

\* NewDriver
Init ==
    /\ data = NewCmd
    /\ api = [u \in Callers |-> Idle]
    /\ timers = [i \in Timers |-> FreeTimer]
    /\ radio = [g \in Radios |-> NoRadio]
    /\ enabled = FALSE
    /\ derr = "nil"
    /\ onError = "nil"
    /\ dmu = "free"
    /\ crashed = FALSE
    /\ lastLife = "none"
    /\ calls = 0
    /\ vtx = VtxIdle
    /\ lewei = NewLeweiCmd(0)
    /\ cam = CamIdle

(* ------------------------ the lock of Cmd ------------------------------ *)
\* some goroutine is between c.Lock() and c.Unlock() in update
Writing ==
    \/ \E u \in Callers : api[u].at \in {"f", "crc"}
    \/ \E i \in Timers : timers[i].pc \in {"f", "crc"}

\* an update that does not take c.Lock()
CanLockAlways == TRUE

\* c.Lock() can be taken (the reader's RLock section is a single step)
CanLock == ~Writing

\* the radio loop reading c.data without c.RLock()
CanRLockUnguarded == TRUE

\* c.RLock() can be taken
CanRLock == ~Writing

(* --------------------------- API calls --------------------------------- *)
\* the process has not been ended by a panic
Alive == ~crashed

CanCall(u) ==
    /\ Alive
    /\ api[u].at = "idle"
    /\ calls < MaxCalls

Enter(u, rec) ==
    /\ api' = [api EXCEPT ![u] = rec]
    /\ calls' = calls + 1

Neutral(d) ==
    /\ d[rollByte] = 128 /\ d[pitchByte] = 128
    /\ d[throttleByte] = 128 /\ d[yawByte] = 128
    /\ d[flagsByte] = 0

\* Driver.Start: d.Lock(), then d.reset()
Start(u) ==
    /\ CanCall(u)
    /\ dmu = "free"
    /\ dmu' = u
    /\ Enter(u, [Idle EXCEPT !.op = "Start", !.at = "lock", !.m = resetMut,
                             !.idle = (lastLife \in {"none", "Halt"}),
                             !.dirty = ~Neutral(data)])
    /\ UNCHANGED <<vtx, lewei, cam, data, timers, radio, enabled, derr, onError, crashed, lastLife>>

\* Driver.Halt: d.Lock()
Halt(u) ==
    /\ CanCall(u)
    /\ dmu = "free"
    /\ dmu' = u
    /\ Enter(u, [Idle EXCEPT !.op = "Halt", !.at = "check",
                             !.idle = (lastLife \in {"none", "Halt"})])
    /\ UNCHANGED <<vtx, lewei, cam, data, timers, radio, enabled, derr, onError, crashed, lastLife>>

\* Driver.OnError
OnError(u, cb) ==
    /\ CanCall(u)
    /\ onError' = cb
    /\ Enter(u, [Idle EXCEPT !.op = "OnError", !.at = "ret"])
    /\ UNCHANGED <<vtx, lewei, cam, data, timers, radio, enabled, derr, dmu, crashed, lastLife>>

\* a call that starts with d.cmd.update(f)
EnterUpdate(u, op, m, note) ==
    /\ CanCall(u)
    /\ Enter(u, [Idle EXCEPT !.op = op, !.at = "lock", !.m = m, !.note = note,
                             !.alone = (\A i \in Timers : timers[i].pc = "free"
                                                          \/ timers[i].flag # m.i)])
    /\ UNCHANGED <<vtx, lewei, cam, data, timers, radio, enabled, derr, onError, dmu, crashed, lastLife>>

\* Driver.Sticks
Sticks(u, args) == EnterUpdate(u, "Sticks", sticksMut(args), "na")

\* Driver.Hover
Hover(u) == EnterUpdate(u, "Hover", hoverMut, "na")

\* Driver.GoUp, GoDown, GoRight, GoLeft, GoForward, GoBackward, GoClockwise,
\* GoCounterClockwise
Go(u, dir, speed) == EnterUpdate(u, "Go", goMut(dir, speed), dir)

\* Driver.TakeOff, Land, Stop, Calibrate, Flip, TakePhoto, CaptureVideo:
\* d.cmd.tempSetFlag(flag, time.Second)
Pulse(u, flag) ==
    /\ \E i \in Timers : timers[i].pc = "free"
    /\ EnterUpdate(u, "Pulse", setFlagMut(flag), "na")

\* Driver.DoBackFlip, DoFrontFlip, DoLeftFlip, DoRightFlip: d.Flip(), then
\* d.GoXxx(100)
DoFlip(u, dir) ==
    /\ \E i \in Timers : timers[i].pc = "free"
    /\ EnterUpdate(u, "DoFlip", setFlagMut(flipFlag), dir)

\* Driver.CompassOn
CompassOn(u) == EnterUpdate(u, "CompassOn", setFlagMut(compassFlag), "na")

\* Driver.CompassOff
CompassOff(u) == EnterUpdate(u, "CompassOff", clearFlagMut(compassFlag), "na")

(* ------------------- Cmd.update in a calling goroutine ----------------- *)
\* c.Lock()
UpdLock(u) ==
    /\ Alive
    /\ api[u].at = "lock"
    /\ CanLock
    /\ api' = [api EXCEPT ![u].at = "f"]
    /\ UNCHANGED <<vtx, lewei, cam, data, timers, radio, enabled, derr, onError, dmu, crashed,
                   lastLife, calls>>

\* f(c.data); c.data[crcByte] = 0
UpdF(u) ==
    /\ Alive
    /\ api[u].at = "f"
    /\ data' = updateBody(api[u].m, data)
    /\ api' = [api EXCEPT ![u].at = "crc"]
    /\ UNCHANGED <<vtx, lewei, cam, timers, radio, enabled, derr, onError, dmu, crashed, lastLife, calls>>

\* what the caller does once update has returned
AfterUpdate(r) ==
    CASE r.op = "Start" -> [r EXCEPT !.at = "check"]
      [] r.op = "Pulse" -> [r EXCEPT !.at = "after"]
      [] r.op = "DoFlip" /\ r.m.k = "set" -> [r EXCEPT !.at = "after"]
      [] r.op \in {"Go", "DoFlip"} /\ r.m.k = "stick" /\ r.note # "CounterClockwise"
                        -> [r EXCEPT !.at = "sleep", !.left = SleepUnits]
      [] OTHER          -> [r EXCEPT !.at = "ret"]

\* c.data[crcByte] = crc(c.data); c.Unlock()
UpdCrc(u) ==
    /\ Alive
    /\ api[u].at = "crc"
    /\ data' = updateCrc(data)
    /\ api' = [api EXCEPT ![u] = AfterUpdate(api[u])]
    /\ UNCHANGED <<vtx, lewei, cam, timers, radio, enabled, derr, onError, dmu, crashed, lastLife, calls>>

\* GoXxx: time.Sleep(time.Second / 2) is over; d.Hover() is called
Wake(u) ==
    /\ Alive
    /\ api[u].at = "sleep"
    /\ api[u].left = 0
    /\ api' = [api EXCEPT ![u].at = "lock", ![u].m = hoverMut]
    /\ UNCHANGED <<vtx, lewei, cam, data, timers, radio, enabled, derr, onError, dmu, crashed,
                   lastLife, calls>>

LowestFreeTimer ==
    CHOOSE i \in Timers : /\ timers[i].pc = "free"
                          /\ \A j \in Timers : j < i => timers[j].pc # "free"

\* tempSetFlag: time.AfterFunc(duration, func() { c.clearFlag(flag) }); a
\* DoXxxFlip goes on with its GoXxx(100)
AfterFunc(u) ==
    /\ Alive
    /\ api[u].at = "after"
    /\ \E i \in Timers : timers[i].pc = "free"
    /\ timers' = [timers EXCEPT ![LowestFreeTimer] =
                      [flag |-> api[u].m.i, left |-> PulseUnits, pc |-> "wait",
                       old |-> FALSE]]
    /\ api' = IF api[u].op = "DoFlip"
              THEN [api EXCEPT ![u].at = "lock",
                               ![u].m = goMut(api[u].note, FlipSpeed)]
              ELSE [api EXCEPT ![u].at = "ret"]
    /\ UNCHANGED <<vtx, lewei, cam, data, radio, enabled, derr, onError, dmu, crashed, lastLife, calls>>

\* the call has returned to its caller
Return(u) ==
    /\ Alive
    /\ api[u].at = "ret"
    /\ api' = [api EXCEPT ![u] = Idle]
    /\ UNCHANGED <<vtx, lewei, cam, data, timers, radio, enabled, derr, onError, dmu, crashed,
                   lastLife, calls>>

(* ------------------------- Start and Halt ------------------------------ *)
LowestFreeRadio ==
    CHOOSE g \in Radios : /\ radio[g].pc = "none"
                          /\ \A h \in Radios : h < g => radio[h].pc # "none"

\* radioLoop, called by Start with d.enabled false: net.DialUDP succeeds (the
\* goroutine is started with its ticker and connection, d.enabled = true) or
\* fails (d.err = err; d.onError(err), a nil func when none is registered)
radioLoop(u, ok) ==
    IF ok
    THEN /\ \E g \in Radios : radio[g].pc = "none"
         /\ radio' = [radio EXCEPT ![LowestFreeRadio] = [pc |-> "tick", sent |-> NoFrame]]
         /\ enabled' = TRUE
         /\ api' = [api EXCEPT ![u].at = "unlock", ![u].note = "ok"]
         /\ UNCHANGED <<derr, crashed>>
    ELSE /\ derr' = "dial"
         /\ IF onError = "nil"
            THEN /\ crashed' = TRUE
                 /\ api' = [api EXCEPT ![u].at = "panic", ![u].note = "fail"]
            ELSE /\ crashed' = crashed
                 /\ api' = [api EXCEPT
                              ![u].at = IF onError = "blocks" THEN "blocked" ELSE "incb",
                              ![u].note = "fail"]
         /\ UNCHANGED <<radio, enabled>>

\* Start, after d.reset(): if !d.enabled { d.radioLoop() }
StartCheck(u) ==
    /\ Alive
    /\ api[u].op = "Start"
    /\ api[u].at = "check"
    /\ IF enabled
       THEN /\ api' = [api EXCEPT ![u].at = "unlock", ![u].note = "skip"]
            /\ UNCHANGED <<radio, enabled, derr, crashed>>
       ELSE \E ok \in BOOLEAN : radioLoop(u, ok)
    /\ UNCHANGED <<vtx, lewei, cam, data, timers, onError, dmu, lastLife, calls>>

\* the error callback called by radioLoop in the caller's goroutine returns
StartCbReturn(u) ==
    /\ Alive
    /\ api[u].at = "incb"
    /\ api' = [api EXCEPT ![u].at = "unlock"]
    /\ UNCHANGED <<vtx, lewei, cam, data, timers, radio, enabled, derr, onError, dmu, crashed,
                   lastLife, calls>>

\* Halt with a send that does not wait for the radio loop to receive
HaltCheckNoWait(u) ==
    /\ Alive
    /\ api[u].op = "Halt"
    /\ api[u].at = "check"
    /\ api' = [api EXCEPT ![u].at = "unlock",
                          ![u].note = IF enabled THEN "send" ELSE "skip"]
    /\ UNCHANGED <<vtx, lewei, cam, data, timers, radio, enabled, derr, onError, dmu, crashed,
                   lastLife, calls>>

\* Halt: if d.enabled { d.stop <- true }; the send waits for a receiver
HaltCheck(u) ==
    /\ Alive
    /\ api[u].op = "Halt"
    /\ api[u].at = "check"
    /\ api' = [api EXCEPT ![u].at = IF enabled THEN "send" ELSE "unlock",
                          ![u].note = IF enabled THEN "send" ELSE "skip"]
    /\ UNCHANGED <<vtx, lewei, cam, data, timers, radio, enabled, derr, onError, dmu, crashed,
                   lastLife, calls>>

\* Start and Halt: return d.err with the deferred d.Unlock()
Unlock(u) ==
    /\ Alive
    /\ api[u].at \in {"unlock", "sent"}
    /\ dmu' = "free"
    /\ api' = [api EXCEPT ![u].at = "ret"]
    /\ lastLife' = IF api[u].note = "fail" THEN lastLife ELSE api[u].op
    /\ timers' = IF api[u].op = "Halt"
                 THEN [i \in Timers |->
                         IF timers[i].pc = "free"
                         THEN timers[i]
                         ELSE [timers[i] EXCEPT !.old = TRUE]]
                 ELSE timers
    /\ UNCHANGED <<vtx, lewei, cam, data, radio, enabled, derr, onError, crashed, calls>>

(* ------------------ the goroutine of a deferred clear ------------------ *)
\* the timer expires: its goroutine calls c.clearFlag(flag), which takes c.Lock()
Fire(i) ==
    /\ Alive
    /\ timers[i].pc = "wait"
    /\ timers[i].left = 0
    /\ CanLock
    /\ timers' = [timers EXCEPT ![i].pc = "f"]
    /\ UNCHANGED <<vtx, lewei, cam, data, api, radio, enabled, derr, onError, dmu, crashed,
                   lastLife, calls>>

\* f(c.data); c.data[crcByte] = 0
ClearF(i) ==
    /\ Alive
    /\ timers[i].pc = "f"
    /\ data' = updateBody(clearFlagMut(timers[i].flag), data)
    /\ timers' = [timers EXCEPT ![i].pc = "crc"]
    /\ UNCHANGED <<vtx, lewei, cam, api, radio, enabled, derr, onError, dmu, crashed, lastLife, calls>>

\* c.data[crcByte] = crc(c.data); c.Unlock(); the goroutine ends
ClearCrc(i) ==
    /\ Alive
    /\ timers[i].pc = "crc"
    /\ data' = updateCrc(data)
    /\ timers' = [timers EXCEPT ![i] = FreeTimer]
    /\ UNCHANGED <<vtx, lewei, cam, api, radio, enabled, derr, onError, dmu, crashed, lastLife, calls>>

(* ------------------------ the radio goroutine -------------------------- *)
\* conn.Write: nil, or an error
WriteResults == {"nil", "err"}

\* a radio loop that writes the frame it took when it was started
RadioWriteStale(g, res) ==
    /\ Alive
    /\ radio[g].pc = "tick"
    /\ CanRLock
    /\ radio' = [radio EXCEPT ![g] = IF res = "nil"
                                      THEN [pc |-> "select", sent |-> NewCmd]
                                      ELSE [pc |-> "werr", sent |-> NoFrame]]
    /\ UNCHANGED <<vtx, lewei, cam, data, api, timers, enabled, derr, onError, dmu, crashed,
                   lastLife, calls>>

\* a tick: d.cmd.RLock(); _, err := conn.Write(d.cmd.data); d.cmd.RUnlock()
RadioWrite(g, res) ==
    /\ Alive
    /\ radio[g].pc = "tick"
    /\ CanRLock
    /\ radio' = [radio EXCEPT ![g] = IF res = "nil"
                                      THEN [pc |-> "select", sent |-> data]
                                      ELSE [pc |-> "werr", sent |-> NoFrame]]
    /\ UNCHANGED <<vtx, lewei, cam, data, api, timers, enabled, derr, onError, dmu, crashed,
                   lastLife, calls>>

\* if err != nil { d.err = err; d.onError(err) }: calling a nil func panics
RadioErr(g) ==
    /\ Alive
    /\ radio[g].pc = "werr"
    /\ derr' = "write"
    /\ IF onError = "nil"
       THEN /\ crashed' = TRUE
            /\ radio' = [radio EXCEPT ![g].pc = "panic"]
       ELSE /\ crashed' = crashed
            /\ radio' = [radio EXCEPT
                            ![g].pc = IF onError = "blocks" THEN "blocked" ELSE "incb"]
    /\ UNCHANGED <<vtx, lewei, cam, data, api, timers, enabled, onError, dmu, lastLife, calls>>

\* the error callback returns
RadioCbReturn(g) ==
    /\ Alive
    /\ radio[g].pc = "incb"
    /\ radio' = [radio EXCEPT ![g].pc = "select"]
    /\ UNCHANGED <<vtx, lewei, cam, data, api, timers, enabled, derr, onError, dmu, crashed,
                   lastLife, calls>>

\* select { case <-d.stop: ...; default: }: the receive is taken when a Halt
\* waits in its send, and completes that send; otherwise the next tick is awaited
RadioSelect(g) ==
    /\ Alive
    /\ radio[g].pc = "select"
    /\ IF \E u \in Callers : api[u].at = "send"
       THEN LET u == CHOOSE c \in Callers : api[c].at = "send"
            IN  /\ api' = [api EXCEPT ![u].at = "sent"]
                /\ radio' = [radio EXCEPT ![g] = [pc |-> "stopping", sent |-> NoFrame]]
       ELSE /\ radio' = [radio EXCEPT ![g] = [pc |-> "tick", sent |-> NoFrame]]
            /\ api' = api
    /\ UNCHANGED <<vtx, lewei, cam, data, timers, enabled, derr, onError, dmu, crashed, lastLife, calls>>

\* case <-d.stop: d.err = nil; d.enabled = false
RadioStop(g) ==
    /\ Alive
    /\ radio[g].pc = "stopping"
    /\ derr' = "nil"
    /\ enabled' = FALSE
    /\ radio' = [radio EXCEPT ![g].pc = "closing"]
    /\ UNCHANGED <<vtx, lewei, cam, data, api, timers, onError, dmu, crashed, lastLife, calls>>

\* return: the deferred conn.Close() and ticker.Stop() run, the goroutine ends
RadioClose(g) ==
    /\ Alive
    /\ radio[g].pc = "closing"
    /\ radio' = [radio EXCEPT ![g] = NoRadio]
    /\ UNCHANGED <<vtx, lewei, cam, data, api, timers, enabled, derr, onError, dmu, crashed,
                   lastLife, calls>>

(* ------------------------------ time ----------------------------------- *)
\* a deadline that expires inside the current unit has not been served yet
Due ==
    \/ \E i \in Timers : timers[i].pc = "wait" /\ timers[i].left = 0
    \/ \E u \in Callers : api[u].at = "sleep" /\ api[u].left = 0

\* where a caller can stay for long: between calls, in time.Sleep, in the send
\* on d.stop, inside the error callback; its other statements take no time at
\* the scale of the unit, and neither does the update of a deferred clear
Waits == {"idle", "sleep", "send", "incb", "blocked"}

Elapse(n) == IF n > 0 THEN n - 1 ELSE 0

\* half a second has passed since the last unit boundary
Tick ==
    /\ Alive
    /\ ~Due
    /\ \A u \in Callers : api[u].at \in Waits
    /\ \A i \in Timers : timers[i].pc \in {"free", "wait"}
    /\ \/ \E i \in Timers : timers[i].pc = "wait"
       \/ \E u \in Callers : api[u].at = "sleep"
    /\ timers' = [i \in Timers |->
                    IF timers[i].pc = "wait"
                    THEN [timers[i] EXCEPT !.left = Elapse(timers[i].left)]
                    ELSE timers[i]]
    /\ api' = [u \in Callers |->
                 IF api[u].at = "sleep"
                 THEN [api[u] EXCEPT !.left = Elapse(api[u].left)]
                 ELSE api[u]]
    /\ UNCHANGED <<vtx, lewei, cam, data, radio, enabled, derr, onError, dmu, crashed, lastLife, calls>>

(* ------------------------- the specification --------------------------- *)
Next ==
    \/ \E u \in Callers : Start(u)
    \/ \E u \in Callers : Halt(u)
    \/ \E u \in Callers, cb \in Callbacks : OnError(u, cb)
    \/ \E u \in Callers, args \in StickInputs : Sticks(u, args)
    \/ \E u \in Callers : Hover(u)
    \/ \E u \in Callers, dir \in GoDirs, speed \in Speeds : Go(u, dir, speed)
    \/ \E u \in Callers, flag \in PulseFlags : Pulse(u, flag)
    \/ \E u \in Callers, dir \in FlipDirs : DoFlip(u, dir)
    \/ \E u \in Callers : CompassOn(u)
    \/ \E u \in Callers : CompassOff(u)
    \/ \E u \in Callers : UpdLock(u)
    \/ \E u \in Callers : UpdF(u)
    \/ \E u \in Callers : UpdCrc(u)
    \/ \E u \in Callers : Wake(u)
    \/ \E u \in Callers : AfterFunc(u)
    \/ \E u \in Callers : StartCheck(u)
    \/ \E u \in Callers : StartCbReturn(u)
    \/ \E u \in Callers : HaltCheck(u)
    \/ \E u \in Callers : Unlock(u)
    \/ \E u \in Callers : Return(u)
    \/ \E i \in Timers : Fire(i)
    \/ \E i \in Timers : ClearF(i)
    \/ \E i \in Timers : ClearCrc(i)
    \/ \E g \in Radios, res \in WriteResults : RadioWrite(g, res)
    \/ \E g \in Radios : RadioErr(g)
    \/ \E g \in Radios : RadioCbReturn(g)
    \/ \E g \in Radios : RadioSelect(g)
    \/ \E g \in Radios : RadioStop(g)
    \/ \E g \in Radios : RadioClose(g)
    \/ Tick

Spec == Init /\ [][Next]_vars

\* once the radio goroutine has received from d.stop nothing blocks it: the two
\* assignments and the deferred conn.Close() run without taking any lock
FairSpec ==
    Spec /\ \A g \in Radios : WF_vars(RadioStop(g)) /\ WF_vars(RadioClose(g))

\* a new driver on which Sticks(up, rotate, 0, 0) is called once, for every up
\* on the grid of hundredths and rotate the next value of the grid
SticksInit ==
    /\ data = NewCmd
    /\ \E v \in -MaxStick .. MaxStick :
          api = [u \in Callers |->
                   [Idle EXCEPT !.op = "Sticks", !.at = "lock",
                                !.m = sticksMut(<<v, v + 1, 0, 0>>)]]
    /\ timers = [i \in Timers |-> FreeTimer]
    /\ radio = [g \in Radios |-> NoRadio]
    /\ enabled = FALSE
    /\ derr = "nil"
    /\ onError = "nil"
    /\ dmu = "free"
    /\ crashed = FALSE
    /\ lastLife = "none"
    /\ calls = MaxCalls
    /\ vtx = VtxIdle
    /\ lewei = NewLeweiCmd(0)
    /\ cam = CamIdle

SticksNext ==
    \/ \E u \in Callers : UpdLock(u)
    \/ \E u \in Callers : UpdF(u)
    \/ \E u \in Callers : UpdCrc(u)
    \/ \E u \in Callers : Return(u)

SticksSpec == SticksInit /\ [][SticksNext]_vars

\* a new driver on which TakeOff has been called and has returned
SessionInit ==
    /\ data = updateCrc(updateBody(setFlagMut(takeOffFlag), NewCmd))
    /\ api = [u \in Callers |-> Idle]
    /\ timers = [i \in Timers |->
                    IF i = 1
                    THEN [flag |-> takeOffFlag, left |-> PulseUnits, pc |-> "wait",
                          old |-> FALSE]
                    ELSE FreeTimer]
    /\ radio = [g \in Radios |-> NoRadio]
    /\ enabled = FALSE
    /\ derr = "nil"
    /\ onError = "nil"
    /\ dmu = "free"
    /\ crashed = FALSE
    /\ lastLife = "none"
    /\ calls = 0
    /\ vtx = VtxIdle
    /\ lewei = NewLeweiCmd(0)
    /\ cam = CamIdle

SessionSpec == SessionInit /\ [][Next]_vars

(* --------------------- package vtx: the operations ---------------------- *)
Flight == <<data, api, timers, radio, enabled, derr, onError, dmu, crashed,
            lastLife, calls>>

\* NewDriver alone: no method of the driver is called
FlightInit ==
    /\ data = NewCmd
    /\ api = [u \in Callers |-> Idle]
    /\ timers = [i \in Timers |-> FreeTimer]
    /\ radio = [g \in Radios |-> NoRadio]
    /\ enabled = FALSE
    /\ derr = "nil"
    /\ onError = "nil"
    /\ dmu = "free"
    /\ crashed = FALSE
    /\ lastLife = "none"
    /\ calls = 0

(* ---------------------- package vtx: the codec -------------------------- *)
\* NewLeweiCmd(cmd) for any command code
CodecInit ==
    /\ FlightInit
    /\ vtx = VtxIdle
    /\ \E cmd \in ActionCmds : lewei = NewLeweiCmd(cmd)
    /\ cam = CamIdle

\* c.AddPayload(data)
AddPayload(arg) ==
    /\ headerGet(lewei, lenI) + 4 * Len(arg.val) <= MaxPayload
    /\ lewei' = AddPayloadOf(lewei, arg)
    /\ UNCHANGED <<Flight, vtx, cam>>

CodecNext == \E arg \in PayloadInputs : AddPayload(arg)

CodecSpec == CodecInit /\ [][CodecNext]_vars

(* --------------------- package vtx: the operations ---------------------- *)
\* a call starts with the state the last one left on disk and on the network
VtxCall(op, dial, cmd, cb, want) ==
    /\ vtx.pc \in {"idle", "done"}
    /\ vtx.conn < MaxConns
    /\ vtx' = [VtxIdle EXCEPT !.op = op, !.pc = "dial", !.dial = dial, !.cmd = cmd,
                              !.cb = cb, !.want = want, !.conn = vtx.conn,
                              !.conns = vtx.conns, !.file = vtx.file]
    /\ UNCHANGED <<Flight, lewei, cam>>

\* Action(cmd, payload, callback), entered by SetClock, TakePhoto, ListVideos,
\* DeleteVideo, StartVideo, StopVideo and IsCapturing or called directly
Action(cmd, cb) == VtxCall("Action", cmd, cmd, cb, cmd)

DownloadVideo ==
    VtxCall("DownloadVideo", downloadVideoCmd, downloadVideoCmd, FALSE, videoDownloadCmd)

ReplayVideo ==
    VtxCall("ReplayVideo", downloadVideoCmd, replayVideoCmd, FALSE, videoReplayCmd)

\* newConn(portByCmd(dial)): DialTCP succeeds, and keepAlive(conn) starts its
\* goroutine, or fails, and the operation returns at once
newConn(ok) ==
    /\ vtx.pc = "dial"
    /\ vtx' = IF ok
              THEN [vtx EXCEPT !.pc = "req", !.port = portByCmd(vtx.dial),
                               !.conn = vtx.conn + 1,
                               !.conns[vtx.conn + 1] =
                                   [st |-> "open", ka |-> "select", closes |-> 0]]
              ELSE [vtx EXCEPT !.pc = "done", !.out = "nodial"]
    /\ UNCHANGED <<Flight, lewei, cam>>

\* the bytes of the payload of the request: 196 in DownloadVideo, 124 in
\* ReplayVideo, two uint32 in SetClock, 100 bytes in DeleteVideo, five uint32
\* in StartVideo and StopVideo, nil elsewhere
PayloadLen(op, cmd) ==
    CASE op = "DownloadVideo" -> 196
      [] op = "ReplayVideo" -> 124
      [] op = "Action" /\ cmd = setClockCmd -> 8
      [] op = "Action" /\ cmd = deleteVideoCmd -> 100
      [] op = "Action" /\ cmd = captureVideoCmd -> 20
      [] OTHER -> 0

\* one conn.Write of send: the header or the payload of the frame of cmd
Wrote(part, cmd) == [part |-> part, cmd |-> cmd]

\* Req(cmd, payload, conn) up to conn.Write(cmd.header) in send; the write of
\* an empty payload puts nothing on the connection
Req ==
    /\ vtx.pc = "req"
    /\ vtx' = [vtx EXCEPT !.pc = IF PayloadLen(vtx.op, vtx.cmd) > 0 THEN "send" ELSE "res",
                          !.sent = Append(vtx.sent, vtx.cmd),
                          !.wire = Append(vtx.wire, Wrote("header", vtx.cmd))]
    /\ UNCHANGED <<Flight, lewei, cam>>

\* conn.Write(cmd.payload.Bytes()) in send, and the return of Req
sendPayload ==
    /\ vtx.pc = "send"
    /\ vtx' = [vtx EXCEPT !.pc = "res",
                          !.wire = Append(vtx.wire, Wrote("payload", vtx.cmd))]
    /\ UNCHANGED <<Flight, lewei, cam>>

\* a goroutine whose stop case closes the connection but does not return
keepAliveNoReturn ==
    /\ vtx.conn > 0
    /\ vtx.conns[vtx.conn].ka # "none"
    /\ Len(vtx.sent) < MaxKeepAlive
    /\ vtx' = [vtx EXCEPT !.sent = Append(vtx.sent, keepAliveCmd),
                          !.wire = Append(vtx.wire, Wrote("header", keepAliveCmd))]
    /\ UNCHANGED <<Flight, lewei, cam>>

\* the goroutine of keepAlive, case <-ticker.C: Req(keepAliveCmd, nil, conn)
\* on the connection it was started for
keepAlive ==
    /\ vtx.conn > 0
    /\ vtx.conns[vtx.conn].ka = "select"
    /\ Len(vtx.sent) < MaxKeepAlive
    /\ vtx' = [vtx EXCEPT !.sent = Append(vtx.sent, keepAliveCmd),
                          !.wire = Append(vtx.wire, Wrote("header", keepAliveCmd))]
    /\ UNCHANGED <<Flight, lewei, cam>>

\* the frames the drone may answer with while Res waits for want: a keep-alive
\* echo, the zero command, the replay end with and without a chunk, a command
\* nobody waits for, a frame without the tag, and the responses of type want
Chunks == {<<5>>, <<6, 7>>}

DownloadFrames ==
    {Frame(videoDownloadCmd, Pl(t, 0, n, 0, <<>>)) :
        t \in {1, 4}, n \in {RequestedName, OtherName}}
    \cup {Frame(videoDownloadCmd, Pl(2, 0, n, 0, b)) :
        n \in {RequestedName, OtherName}, b \in Chunks}
    \cup {Frame(videoDownloadCmd, Pl(3, z, RequestedName, 0, <<>>)) : z \in 0 .. MaxSize}

ReplayChunks ==
    {Pl(t, 0, 0, ff, b) : t \in {0, 1, 256}, ff \in {0, 65280}, b \in {<<>>, <<5>>}}

ReplayFrames == {Frame(videoReplayCmd, pl) : pl \in ReplayChunks \cup {EmptyPl}}

ResponsesOf(want) ==
    CASE want = videoDownloadCmd -> DownloadFrames
      [] want = videoReplayCmd -> ReplayFrames
      [] OTHER -> {Frame(want, EmptyPl), Frame(want, Pl(0, 0, 0, 0, <<42>>))}

Unexpected(want) == Frame(IF want = closeCmd THEN setClockCmd ELSE closeCmd, EmptyPl)

\* 46 bytes that do not begin with the tag but carry want in slot 0
BadTag(want) == [Frame(want, Pl(0, 0, 0, 0, <<42>>)) EXCEPT !.tag = FALSE]

InFrames(want) ==
    {Frame(keepAliveCmd, EmptyPl), Frame(0, EmptyPl), ReadError,
     Frame(videoReplayEndCmd, EmptyPl),
     Frame(videoReplayEndCmd, Pl(0, 0, 0, 0, <<5>>)),
     Unexpected(want), BadTag(want)} \cup ResponsesOf(want)

AllFrames == UNION {InFrames(want) : want \in ActionCmds}

\* Res without its keep-alive case
ResOfNoSkip(cmd, resp) ==
    IF resp.cmd = cmd THEN [act |-> "return", pl |-> resp.pl]
    ELSE IF cmd = videoReplayCmd /\ resp.cmd = videoReplayEndCmd
         THEN [act |-> "return", pl |-> resp.pl]
    ELSE IF resp.cmd = 0 THEN [act |-> "return", pl |-> EmptyPl]
    ELSE [act |-> "panic", pl |-> EmptyPl]

\* Res(cmd, conn) on the command resp that recv returned: read again, return
\* a payload, or panic
ResOf(cmd, resp) ==
    IF resp.cmd = cmd THEN [act |-> "return", pl |-> resp.pl]
    ELSE IF resp.cmd = keepAliveCmd THEN [act |-> "again", pl |-> EmptyPl]
    ELSE IF cmd = videoReplayCmd /\ resp.cmd = videoReplayEndCmd
         THEN [act |-> "return", pl |-> resp.pl]
    ELSE IF resp.cmd = 0 THEN [act |-> "return", pl |-> EmptyPl]
    ELSE [act |-> "panic", pl |-> EmptyPl]

\* file.Write(chunk) at the offset of the handle
WriteAt(file, pos, chunk) ==
    [k \in 1 .. (IF Len(file) > pos + Len(chunk) THEN Len(file) ELSE pos + Len(chunk)) |->
        IF k \in pos + 1 .. pos + Len(chunk) THEN chunk[k - pos] ELSE file[k]]

\* closeConn() called at the end of the function instead of deferred: a panic
\* skips it
LeaveNoDefer(v, out, why) ==
    [v EXCEPT !.pc = IF out = "panic" THEN "done" ELSE "close", !.out = out, !.why = why]

\* the call has left its loop: the deferred closeConn() is next
Leave(v, out, why) == [v EXCEPT !.pc = "close", !.out = out, !.why = why]

\* Action after Res has returned pl: the callback, if one was given
ActionBody(v, pl) ==
    Leave(IF v.cb THEN [v EXCEPT !.cbs = v.cbs + 1, !.got = pl] ELSE v, "ok", "return")

\* the body of the loop of DownloadVideo without its check of the file name
DownloadBodyAnyName(v, pl) ==
    LET h == [v EXCEPT !.types = Append(v.types, pl.type),
                       !.cat = v.cat \o (IF pl.type = 2 THEN pl.body ELSE <<>>)]
    IN CASE pl.empty -> Leave(v, "panic", "index out of range")
         [] ~pl.empty /\ pl.type = 1 -> [h EXCEPT !.fopen = TRUE, !.fpos = 0]
         [] ~pl.empty /\ pl.type = 2 ->
               IF ~v.fopen
               THEN Leave(h, "panic", "invalid argument")
               ELSE [h EXCEPT !.file = WriteAt(v.file, v.fpos, pl.body),
                              !.fpos = v.fpos + pl.csize,
                              !.loaded = v.loaded + pl.csize]
         [] ~pl.empty /\ pl.type = 3 ->
               IF v.loaded = pl.fsize THEN Leave(h, "ok", "whole file") ELSE h
         [] OTHER -> Leave(h, "ok", "wrong state")

\* the body of the loop of DownloadVideo with a chunk frame that creates the
\* file when no start frame has done so
DownloadBodyLazyOpen(v, pl) ==
    LET h == [v EXCEPT !.types = Append(v.types, pl.type),
                       !.cat = v.cat \o (IF pl.type = 2 THEN pl.body ELSE <<>>)]
    IN CASE pl.empty -> Leave(v, "panic", "index out of range")
         [] ~pl.empty /\ pl.name # RequestedName -> Leave(v, "panic", "bad response")
         [] ~pl.empty /\ pl.name = RequestedName /\ pl.type = 1 ->
               [h EXCEPT !.fopen = TRUE, !.fpos = 0]
         [] ~pl.empty /\ pl.name = RequestedName /\ pl.type = 2 ->
               [h EXCEPT !.fopen = TRUE,
                         !.file = WriteAt(v.file, v.fpos, pl.body),
                         !.fpos = v.fpos + pl.csize,
                         !.loaded = v.loaded + pl.csize]
         [] ~pl.empty /\ pl.name = RequestedName /\ pl.type = 3 ->
               IF v.loaded = pl.fsize THEN Leave(h, "ok", "whole file") ELSE h
         [] OTHER -> Leave(h, "ok", "wrong state")

\* the body of the loop of DownloadVideo on the payload pl
DownloadBody(v, pl) ==
    LET h == [v EXCEPT !.types = Append(v.types, pl.type),
                       !.cat = v.cat \o (IF pl.type = 2 THEN pl.body ELSE <<>>)]
    IN CASE pl.empty -> Leave(v, "panic", "index out of range")
         [] ~pl.empty /\ pl.name # RequestedName -> Leave(v, "panic", "bad response")
         [] ~pl.empty /\ pl.name = RequestedName /\ pl.type = 1 ->
               [h EXCEPT !.fopen = TRUE, !.fpos = 0]
         [] ~pl.empty /\ pl.name = RequestedName /\ pl.type = 2 ->
               IF ~v.fopen
               THEN Leave(h, "panic", "invalid argument")
               ELSE [h EXCEPT !.file = WriteAt(v.file, v.fpos, pl.body),
                              !.fpos = v.fpos + pl.csize,
                              !.loaded = v.loaded + pl.csize]
         [] ~pl.empty /\ pl.name = RequestedName /\ pl.type = 3 ->
               IF v.loaded = pl.fsize THEN Leave(h, "ok", "whole file") ELSE h
         [] OTHER -> Leave(h, "ok", "wrong state")

\* the body of the loop of ReplayVideo on the payload pl; output is not nil
ReplayBody(v, pl) ==
    CASE pl.empty -> Leave(v, "ok", "eend")
      [] ~pl.empty /\ pl.csize = 0 -> Leave(v, "ok", "end")
      [] ~pl.empty /\ pl.csize # 0 /\ pl.type \notin {0, 1} -> Leave(v, "ok", "chunktype")
      [] ~pl.empty /\ pl.csize # 0 /\ pl.type \in {0, 1} /\ pl.ff = 65280 -> v
      [] OTHER -> [v EXCEPT !.sink = Append(v.sink, pl.body)]

\* one recv of Res and what the caller does with the outcome, up to its next
\* read: Res reads again, panics, or returns a payload to the body of the caller
Res(resp) ==
    /\ vtx.pc = "res"
    /\ resp \in InFrames(vtx.want)
    /\ vtx.nrecv < MaxRecv
    /\ LET r == ResOf(vtx.want, resp)
           v == [vtx EXCEPT !.last = resp, !.nrecv = vtx.nrecv + 1]
       IN vtx' = CASE r.act = "again" -> v
                   [] r.act = "panic" -> Leave(v, "panic", "invalid response")
                   [] r.act = "return" /\ v.op = "Action" -> ActionBody(v, r.pl)
                   [] r.act = "return" /\ v.op = "DownloadVideo" -> DownloadBody(v, r.pl)
                   [] r.act = "return" /\ v.op = "ReplayVideo" -> ReplayBody(v, r.pl)
    /\ UNCHANGED <<Flight, lewei, cam>>

\* the deferred closeConn(): stop <- true is received by the goroutine of
\* keepAlive in its select, and the call returns or goes on panicking
closeConn ==
    /\ vtx.pc = "close"
    /\ vtx.conns[vtx.conn].ka = "select"
    /\ vtx' = [vtx EXCEPT !.pc = "done", !.conns[vtx.conn].ka = "stopping"]
    /\ UNCHANGED <<Flight, lewei, cam>>

\* the goroutine of keepAlive, case <-stop: ticker.Stop(); conn.Close(); return
keepAliveStop(c) ==
    /\ vtx.conns[c].ka = "stopping"
    /\ vtx' = [vtx EXCEPT !.conns[c] = [st |-> "closed", ka |-> "done",
                                        closes |-> vtx.conns[c].closes + 1]]
    /\ UNCHANGED <<Flight, lewei, cam>>

\* the files DownloadVideo may find on disk under the name it writes to
OldFiles == {<<>>, <<9, 9, 9>>}

VtxInit ==
    /\ FlightInit
    /\ lewei = NewLeweiCmd(0)
    /\ cam = CamIdle
    /\ \E f \in OldFiles : vtx = [VtxIdle EXCEPT !.file = f]

VtxNext ==
    \/ \E cmd \in ActionCmds, cb \in BOOLEAN : Action(cmd, cb)
    \/ DownloadVideo
    \/ ReplayVideo
    \/ \E ok \in BOOLEAN : newConn(ok)
    \/ Req
    \/ sendPayload
    \/ keepAlive
    \/ \E resp \in AllFrames : Res(resp)
    \/ closeConn
    \/ \E c \in Conns : keepAliveStop(c)

VtxSpec == VtxInit /\ [][VtxNext]_vars

\* the goroutine of keepAlive is blocked by nothing once it has received from
\* stop, and the sender of stop <- true is served once the goroutine is back
\* in its select
VtxFairSpec ==
    VtxSpec /\ WF_vars(closeConn) /\ \A c \in Conns : WF_vars(keepAliveStop(c))

(* ---------------------- package vtx: actions.go ------------------------ *)
\* bytes.Trim(b, "\x00")
Trim(b) ==
    LET nz == {k \in 1 .. Len(b) : b[k] # 0}
    IN IF nz = {} THEN <<>>
       ELSE SubSeq(b, CHOOSE k \in nz : \A j \in nz : k <= j,
                      CHOOSE k \in nz : \A j \in nz : j <= k)

\* the entry of the response to listVideosCmd for one video, as the callback
\* of ListVideos reads it: 116 bytes, the duration in bytes 4..7, the file
\* name in bytes 16..115 padded with zeros; the other bytes are not read
EntryLen == 116

VideoEntry(video) ==
    <<200, 201, 202, 3>> \o PutUint32(video.Duration)
    \o <<210, 211, 212, 213, 214, 215, 216, 217>>
    \o [k \in 1 .. 100 |-> IF k <= Len(video.Filename) THEN video.Filename[k] ELSE 0]

VideoNames == {<<97>>, <<98, 99>>, [k \in 1 .. 100 |-> 100]}

Durations == {0, 7, 65539}

Videos == [Filename : VideoNames, Duration : Durations]

VideoLists == UNION {[1 .. n -> Videos] : n \in 0 .. MaxVideos}

\* what may follow the last whole entry of a payload
Tails == {<<>>, <<1, 2, 3>>}

\* the callback of ListVideos with the duration read from bytes 0..3
listCallbackFirstWord(payload) ==
    LET f[n \in 0 .. Len(payload)] ==
            IF n = Len(payload) THEN [videos |-> <<>>, out |-> "ok"]
            ELSE IF Len(payload) - n < EntryLen THEN [videos |-> <<>>, out |-> "panic"]
            ELSE [videos |->
                     <<[Filename |-> Trim(SubSeq(payload, n + 17, n + 116)),
                        Duration |-> Uint32(SubSeq(payload, n + 1, n + 4))]>>
                     \o f[n + EntryLen].videos,
                  out |-> f[n + EntryLen].out]
    IN f[0]

\* the callback of ListVideos: for ; len(payload) > 0; payload = payload[116:].
\* f[n] is the loop from offset n on; fewer than 116 bytes left make
\* payload[116:] panic, whatever the capacity of the slice
listCallback(payload) ==
    LET f[n \in 0 .. Len(payload)] ==
            IF n = Len(payload) THEN [videos |-> <<>>, out |-> "ok"]
            ELSE IF Len(payload) - n < EntryLen THEN [videos |-> <<>>, out |-> "panic"]
            ELSE [videos |->
                     <<[Filename |-> Trim(SubSeq(payload, n + 17, n + 116)),
                        Duration |-> Uint32(SubSeq(payload, n + 5, n + 8))]>>
                     \o f[n + EntryLen].videos,
                  out |-> f[n + EntryLen].out]
    IN f[0]

\* one call is followed from its start to its end
CamCall == cam.pc = "idle"

\* ListVideos(): Action(listVideosCmd, nil, callback) dials or not (ok) and
\* hands the payload of the response to the callback; a panic of the callback
\* leaves ListVideos without a result
ListVideos(ok, list, tail) ==
    /\ CamCall
    /\ LET payload == Flatten([k \in 1 .. Len(list) |-> VideoEntry(list[k])]) \o tail
           r == listCallback(payload)
       IN cam' = [CamIdle EXCEPT !.op = "ListVideos", !.pc = "done",
                                 !.listed = IF ok THEN list ELSE <<>>,
                                 !.tail = IF ok THEN tail ELSE <<>>,
                                 !.out = IF ok THEN r.out ELSE "nodial",
                                 !.videos = IF ok /\ r.out = "ok" THEN r.videos ELSE <<>>]
    /\ UNCHANGED <<Flight, vtx, lewei>>

on == 1

off == 0

\* what Action(checkVideoCmd, nil, callback) may do in IsCapturing: the dial
\* fails, Res panics, Res returns an empty payload, or the drone answers with
\* a first word of 0, 1 or 2
NoReply == 0 - 1

CheckOutcomes ==
    {[k |-> "nodial", v |-> NoReply], [k |-> "panic", v |-> NoReply],
     [k |-> "empty", v |-> NoReply]}
    \cup {[k |-> "reply", v |-> v] : v \in {off, on, 2}}

\* what Action(captureVideoCmd, payload, nil) may do: the dial fails, or the
\* request is written and Res returns or panics
CaptureOutcomes == {"nodial", "ok", "panic"}

LogEntry(ev, capturing, reply, payload) ==
    [ev |-> ev, capturing |-> capturing, reply |-> reply, payload |-> payload]

\* StartVideo and StopVideo without their test of IsCapturing
sendsAlways(phase, capturing) == TRUE

\* if !IsCapturing() in StartVideo, if IsCapturing() in StopVideo
sends(phase, capturing) == IF phase = "start" THEN ~capturing ELSE capturing

\* the statement after StartVideo or StopVideo has returned
afterPhase(c) ==
    IF c.op = "CaptureVideo" /\ c.phase = "start"
    THEN [c EXCEPT !.pc = "sleep"]
    ELSE [c EXCEPT !.pc = "done", !.out = "ok"]

StartVideo ==
    /\ CamCall
    /\ cam' = [CamIdle EXCEPT !.op = "StartVideo", !.pc = "check", !.phase = "start"]
    /\ UNCHANGED <<Flight, vtx, lewei>>

StopVideo ==
    /\ CamCall
    /\ cam' = [CamIdle EXCEPT !.op = "StopVideo", !.pc = "check", !.phase = "stop"]
    /\ UNCHANGED <<Flight, vtx, lewei>>

\* CaptureVideo(duration) enters StartVideo
CaptureVideo ==
    /\ CamCall
    /\ cam' = [CamIdle EXCEPT !.op = "CaptureVideo", !.pc = "check", !.phase = "start"]
    /\ UNCHANGED <<Flight, vtx, lewei>>

\* IsCapturing() and the test made on its result: the callback is not called
\* after a failed dial, and byteToUint32(payload)[0] panics on an empty payload
IsCapturing(res) ==
    /\ cam.pc = "check"
    /\ LET capturing == res.k = "reply" /\ res.v = on
           c == [cam EXCEPT !.log = Append(cam.log,
                                       LogEntry("check", capturing, res.v, <<>>))]
       IN cam' = IF res.k \in {"panic", "empty"}
                 THEN [c EXCEPT !.pc = "done", !.out = "panic"]
                 ELSE IF sends(cam.phase, capturing)
                 THEN [c EXCEPT !.pc = "send"]
                 ELSE afterPhase(c)
    /\ UNCHANGED <<Flight, vtx, lewei>>

\* Action(captureVideoCmd, []uint32{on, 0, 0, 0, 0}, nil) in StartVideo and
\* Action(captureVideoCmd, []uint32{off, 0, 0, 0, 0}, nil) in StopVideo
captureAction(res) ==
    /\ cam.pc = "send"
    /\ LET payload == <<IF cam.phase = "start" THEN on ELSE off, 0, 0, 0, 0>>
           c == IF res = "nodial" THEN cam
                ELSE [cam EXCEPT !.log = Append(cam.log,
                                          LogEntry("capture", FALSE, NoReply, payload))]
       IN cam' = IF res = "panic"
                 THEN [c EXCEPT !.pc = "done", !.out = "panic"]
                 ELSE afterPhase(c)
    /\ UNCHANGED <<Flight, vtx, lewei>>

\* time.Sleep(duration) in CaptureVideo, then StopVideo
Sleep ==
    /\ cam.pc = "sleep"
    /\ cam' = [cam EXCEPT !.pc = "check", !.phase = "stop",
                          !.log = Append(cam.log, LogEntry("sleep", FALSE, NoReply, <<>>))]
    /\ UNCHANGED <<Flight, vtx, lewei>>

\* net.IP values: four bytes for IPv4, sixteen for IPv6
SubnetIP == <<192, 168, 0, 0>>

HostAddrs ==
    {<<192, 168, 0, 3>>, <<192, 168, 0, 17>>, <<192, 168, 0, 200>>,
     <<192, 168, 1, 2>>, <<10, 0, 0, 1>>, <<172, 16, 0, 9>>,
     [k \in 1 .. 16 |-> IF k = 1 THEN 254 ELSE IF k = 2 THEN 128 ELSE IF k = 16 THEN 1 ELSE 0]}

AddrLists == UNION {[1 .. n -> HostAddrs] : n \in 0 .. MaxAddrs}

\* ip.DefaultMask(): nil for an address that is not IPv4
DefaultMask(ip) ==
    IF Len(ip) # 4 THEN <<>>
    ELSE IF ip[1] < 128 THEN <<255, 0, 0, 0>>
    ELSE IF ip[1] < 192 THEN <<255, 255, 0, 0>>
    ELSE <<255, 255, 255, 0>>

\* ip.Mask(mask): nil when the lengths differ; the masks are 255 or 0 per byte
Mask(ip, mask) ==
    IF Len(mask) # Len(ip) THEN <<>>
    ELSE [k \in 1 .. Len(ip) |-> IF mask[k] = 255 THEN ip[k] ELSE 0]

\* getLocalIP() over the addresses net.InterfaceAddrs() returns: f[k] is
\* bestIP after k addresses
getLocalIP(addrs) ==
    LET f[k \in 0 .. Len(addrs)] ==
            IF k = 0 THEN <<192, 168, 0, 255>>
            ELSE IF Mask(addrs[k], DefaultMask(addrs[k])) = SubnetIP
                    /\ addrs[k][Len(addrs[k])] < f[k - 1][Len(f[k - 1])]
                 THEN addrs[k]
                 ELSE f[k - 1]
    IN f[Len(addrs)]

\* newConn up to the bind of DialTCP: laddr := &net.TCPAddr{IP: getLocalIP()};
\* an empty IP leaves the choice to the system, any other must be an address
\* of the host
dialFrom(addrs) ==
    /\ CamCall
    /\ LET laddr == getLocalIP(addrs)
       IN cam' = [CamIdle EXCEPT !.op = "newConn", !.pc = "done", !.addrs = addrs,
                                 !.laddr = laddr,
                                 !.out = IF laddr = <<>> \/ \E k \in 1 .. Len(addrs) : addrs[k] = laddr
                                         THEN "bound" ELSE "nodial"]
    /\ UNCHANGED <<Flight, vtx, lewei>>

CamInit ==
    /\ FlightInit
    /\ vtx = VtxIdle
    /\ lewei = NewLeweiCmd(0)
    /\ cam = CamIdle

CamNext ==
    \/ \E ok \in BOOLEAN, list \in VideoLists, tail \in Tails : ListVideos(ok, list, tail)
    \/ StartVideo
    \/ StopVideo
    \/ CaptureVideo
    \/ \E res \in CheckOutcomes : IsCapturing(res)
    \/ \E res \in CaptureOutcomes : captureAction(res)
    \/ Sleep
    \/ \E addrs \in AddrLists : dialFrom(addrs)

CamSpec == CamInit /\ [][CamNext]_vars

(* ------------------------------ claims --------------------------------- *)
Flag(f) == HasFlag(data[flagsByte], f)

SticksOf(d) == <<d[rollByte], d[pitchByte], d[throttleByte], d[yawByte]>>

\* the statements of the radio goroutine inside its for loop
LoopPcs == {"tick", "select", "werr", "incb", "blocked"}

\* C1: whatever the interleaving of the mutators (calls, deferred clears,
\* reset) with the radio loop, every datagram handed to conn.Write has 8
\* bytes, byte 0 = 0x66, byte 7 = 0x99, and a CRC pass over it yields 0.
C1_WrittenFramesValid ==
    \A g \in Radios :
        radio[g].sent # NoFrame =>
            /\ DOMAIN radio[g].sent = 0..7
            /\ radio[g].sent[0] = 102
            /\ radio[g].sent[7] = 153
            /\ crc(radio[g].sent) = 0

\* a datagram with a flag set and a deflected stick has been written, and a
\* mutator is inside update at that moment
C1_Witness ==
    \E g \in Radios :
        /\ radio[g].sent # NoFrame
        /\ radio[g].sent[flagsByte] # 0
        /\ SticksOf(radio[g].sent) # <<128, 128, 128, 128>>
        /\ Writing

\* the deferred clear i is the only outstanding one for its flag
Sole(i) ==
    \A j \in Timers : j # i => (timers[j].pc = "free" \/ timers[j].flag # timers[i].flag)

\* this step runs the closure of Driver.reset on the buffer
ResetStep ==
    \E u \in Callers : api[u].op = "Start" /\ api[u].at = "f" /\ api'[u].at = "crc"

\* from d to e only the bits of flag in the flags byte may differ (CRC aside)
OnlyFlagChanged(d, e, flag) ==
    /\ \A k \in {0, rollByte, pitchByte, throttleByte, yawByte, 7} : e[k] = d[k]
    /\ \A j \in 0..7 : BitAt(flag, j) = 0 => BitAt(e[flagsByte], j) = BitAt(d[flagsByte], j)

\* a pulse method has returned, called with no deferred clear of its flag
\* outstanding: the bit is set
C2_SetAtReturn ==
    \A u \in Callers :
        (api[u].op = "Pulse" /\ api[u].at = "ret" /\ api[u].alone) => Flag(api[u].m.i)

\* the bit stays set while its only deferred clear has not fired (no step
\* other than the reset of a later Start clears it), the clear fires only when
\* its second has passed, the bit is clear when the clear has run, and the set
\* and the clear change no other flag bit and no stick byte
C2_Steps ==
    /\ \A i \in Timers :
          (/\ timers[i].pc = "wait" /\ Sole(i)
           /\ Flag(timers[i].flag) /\ ~ResetStep) => HasFlag(data'[flagsByte], timers[i].flag)
    /\ \A i \in Timers :
          (timers[i].pc = "wait" /\ timers'[i].pc # "wait") => timers[i].left = 0
    /\ \A i \in Timers :
          (timers[i].pc = "crc" /\ timers'[i].pc = "free")
              => ~HasFlag(data'[flagsByte], timers[i].flag)
    /\ \A i \in Timers :
          (timers[i].pc = "f" /\ timers'[i].pc = "crc")
              => OnlyFlagChanged(data, data', timers[i].flag)
    /\ \A u \in Callers :
          (api[u].op = "Pulse" /\ api[u].at = "f" /\ api'[u].at = "crc")
              => OnlyFlagChanged(data, data', api[u].m.i)

\* C2: after TakeOff (likewise the other pulse methods) on a buffer with no
\* other pending pulse of the flag, the bit is set when the call returns,
\* stays set until the deferred clear fires one second later, is clear once
\* the clear has run, and no other flag bit and no stick byte is changed.
C2_PulseSetsThenClears == []C2_SetAtReturn /\ [][C2_Steps]_vars

\* the only deferred clear of a flag has just cleared its bit, leaving another
\* flag bit and a deflected stick in the buffer
C2_Witness ==
    \E i \in Timers :
        /\ timers[i].pc = "crc" /\ Sole(i)
        /\ ~Flag(timers[i].flag)
        /\ data[flagsByte] # 0
        /\ SticksOf(data) # <<128, 128, 128, 128>>

\* C3: when a pulse of a flag is issued while the deferred clear of an earlier
\* pulse of that flag is pending, the bit stays set until the later pulse's
\* clear fires: while any deferred clear of the flag still waits, no step
\* (other than the reset of a later Start) clears the bit.
C3_SetUntilLastClear ==
    [][\A i \in Timers :
          (timers[i].pc = "wait" /\ Flag(timers[i].flag) /\ ~ResetStep)
              => HasFlag(data'[flagsByte], timers[i].flag)]_vars

\* C4: a failed write stores the error on the driver and calls the error
\* callback, after which the loop goes on; the radio goroutine leaves its loop
\* only by receiving from d.stop, never because of a write error.
C4_WriteErrorKeepsLoop ==
    [][\A g \in Radios :
          /\ (radio[g].pc = "werr" /\ radio'[g].pc # "werr")
                 => (derr' = "write" /\ radio'[g].pc \in {"incb", "blocked"})
          /\ (radio[g].pc = "incb" /\ radio'[g].pc # "incb")
                 => radio'[g].pc = "select"
          /\ (radio[g].pc \in LoopPcs /\ radio'[g].pc \notin LoopPcs)
                 => radio'[g].pc = "stopping"]_vars

\* the radio goroutines that are inside their loop
Transmitters == {g \in Radios : radio[g].pc \in LoopPcs}

\* C6: when Start, called on an idle driver (never started, or the last
\* lifecycle call to return was Halt), returns without a dial failure, the
\* driver is enabled and exactly one radio goroutine is in its loop.
C6_StartFromIdleRuns ==
    \A u \in Callers :
        (/\ api[u].op = "Start" /\ api[u].at = "ret"
         /\ api[u].idle /\ api[u].note # "fail" /\ Alive)
            => (enabled /\ Cardinality(Transmitters) = 1)

\* C7: Start on a driver that is already running is a no-op: the step of
\* that Start that runs on the buffer changes no stick byte and not the flags
\* byte, and the call leaves the radio goroutines and connections as they are.
C7_DoubleStartNoOp ==
    [][\A u \in Callers :
          (api[u].op = "Start" /\ ~api[u].idle /\ api'[u].op = "Start")
              => /\ SticksOf(data') = SticksOf(data)
                 /\ data'[flagsByte] = data[flagsByte]
                 /\ (api'[u] # api[u] => radio' = radio)]_vars

\* C8: Halt called on an idle driver (never started, or after a previous Halt
\* has returned) never waits in the send on d.stop.
C8_HaltWhenIdleNoOp ==
    \A u \in Callers :
        (api[u].op = "Halt" /\ api[u].idle) => api[u].at # "send"

\* the last of Start and Halt to return was a Halt, and no later Start has
\* started a transmitter yet
HaltReturned ==
    /\ lastLife = "Halt"
    /\ \A u \in Callers : ~(api[u].op = "Start" /\ api[u].note = "ok")

C5_Silent ==
    HaltReturned =>
        \A g \in Radios : radio[g].pc \notin LoopPcs /\ radio[g].sent = NoFrame

C5_HaltSent ==
    \E u \in Callers :
        api[u].op = "Halt" /\ api[u].at = "ret" /\ api[u].note = "send"

C5_Closed ==
    \/ crashed
    \/ \A g \in Radios : radio[g].pc \notin {"stopping", "closing"}

\* C5: once Halt has returned on a running driver no radio goroutine is in its
\* write loop any more, so no further datagram is written (until a later Start
\* starts a new transmitter), and the goroutine that was stopped goes on to
\* close its socket (unless a panic ends the process first).
C5_HaltStopsRadio == []C5_Silent /\ (C5_HaltSent ~> C5_Closed)

\* Halt has returned after its send, the goroutine has cleared d.enabled and is
\* about to close the socket
C5_Witness ==
    /\ C5_HaltSent
    /\ ~enabled
    /\ \E g \in Radios : radio[g].pc = "closing"

\* C9: when Start, called on an idle driver, returns, the four stick bytes are
\* 0x80, the flags byte is 0 and the frame carries its CRC, whatever the
\* buffer held when Start was called.
C9_StartResetsBuffer ==
    \A u \in Callers :
        (api[u].op = "Start" /\ api[u].at = "ret" /\ api[u].idle)
            => /\ SticksOf(data) = <<128, 128, 128, 128>>
               /\ data[flagsByte] = 0
               /\ isValid(data)

\* Start returns on an idle driver whose buffer was not neutral when called
C9_Witness ==
    \E u \in Callers :
        /\ api[u].op = "Start" /\ api[u].at = "ret"
        /\ api[u].idle /\ api[u].dirty /\ api[u].note = "ok"

\* the calls that move the sticks, and the calls that set or clear a flag
StickOps == {"Sticks", "Hover"}

FlagOps == {"Pulse", "CompassOn", "CompassOff"}

SameBut(d, e, ks) == \A k \in (0..7) \ ks : e[k] = d[k]

\* C10: the closure of Sticks and of Hover writes only the four stick bytes and
\* leaves the flags byte as it is; the closure of setFlag and clearFlag (in
\* CompassOn, CompassOff, a pulse and its deferred clear) writes only the flags
\* byte and leaves the four stick bytes as they are; besides, update writes
\* only the CRC byte.
C10_MutatorsWriteOwnBytes ==
    [][/\ \A u \in Callers :
            /\ (api[u].op \in StickOps /\ api[u].at = "f" /\ api'[u].at = "crc")
                   => SameBut(data, data', {rollByte, pitchByte, throttleByte,
                                            yawByte, crcByte})
            /\ (api[u].op \in FlagOps /\ api[u].at = "f" /\ api'[u].at = "crc")
                   => SameBut(data, data', {flagsByte, crcByte})
            /\ (api[u].op \in StickOps \cup FlagOps
                    /\ api[u].at = "crc" /\ api'[u].at # "crc")
                   => SameBut(data, data', {crcByte})
       /\ \A i \in Timers :
            /\ (timers[i].pc = "f" /\ timers'[i].pc = "crc")
                   => SameBut(data, data', {flagsByte, crcByte})
            /\ (timers[i].pc = "crc" /\ timers'[i].pc # "crc")
                   => SameBut(data, data', {crcByte})]_vars

\* Sticks has run its closure on a buffer with a flag set, and has moved the
\* sticks away from neutral
C10_Witness ==
    \E u \in Callers :
        /\ api[u].op = "Sticks" /\ api[u].at = "crc"
        /\ data[flagsByte] # 0
        /\ SticksOf(data) # <<128, 128, 128, 128>>

\* C11: when a GoXxx(speed) call returns (it has set its stick byte, slept
\* half a second and called Hover) all four stick bytes are neutral.
C11_GoEndsNeutral ==
    \A u \in Callers :
        (api[u].op = "Go" /\ api[u].at = "ret")
            => SticksOf(data) = <<128, 128, 128, 128>>

\* the stick byte a DoXxxFlip deflects
FlipByte(dir) == IF dir \in {"Backward", "Forward"} THEN pitchByte ELSE rollByte

\* the caller is in the GoXxx(100) of a DoXxxFlip, between the update that
\* deflects the stick and the Hover that puts it back
FlipDeflected(u) ==
    /\ api[u].op = "DoFlip"
    /\ \/ api[u].m.k = "stick" /\ api[u].at = "sleep"
       \/ api[u].m.k = "hover" /\ api[u].at \in {"lock", "f"}
    /\ data[FlipByte(api[u].note)] \in {1, 255}

\* C12: for the whole time a DoXxxFlip holds its stick byte at full
\* deflection the flip bit of the buffer is set, so that no datagram carries
\* the deflected stick without the flip bit.
C12_FlipBitCoversStick ==
    \A u \in Callers : FlipDeflected(u) => Flag(flipFlag)

CompassOffStep ==
    \E u \in Callers :
        api[u].op = "CompassOff" /\ api[u].at = "f" /\ api'[u].at = "crc"

\* C13: the compass bit, once set, is cleared by no step of a stick call, of a
\* pulse or of a deferred clear: the only steps that clear it are the closure
\* of CompassOff and the reset done by Start.
C13_CompassLatched ==
    [][(Flag(compassFlag) /\ ~HasFlag(data'[flagsByte], compassFlag))
           => (CompassOffStep \/ ResetStep)]_vars

\* the compass bit is still set after the deferred clear of a pulse has run
\* and after a stick call has moved the sticks
C13_Witness ==
    /\ Flag(compassFlag)
    /\ SticksOf(data) # <<128, 128, 128, 128>>
    /\ \E i \in Timers : timers[i].pc = "crc" /\ ~Flag(timers[i].flag)

\* v clamped to [-1, +1], in hundredths
Clamp(v) == IF v > 100 THEN 100 ELSE IF v < -100 THEN -100 ELSE v

\* x / 100 rounded toward zero
TowardZero(x) == IF x >= 0 THEN x \div 100 ELSE -((-x) \div 100)

\* Sticks has run its closure: the throttle byte is normalize(up) and the yaw
\* byte is normalize(rotate)
SticksDone(u) == api[u].op = "Sticks" /\ api[u].at \in {"crc", "ret"}

\* C14 as stated: normalize(v) is 128 + round_toward_zero(c * 127), c being v
\* clamped to [-1, +1]; normalize(-1) = 0x01, normalize(0) = 0x80,
\* normalize(+1) = 0xFF; normalize is monotone non-decreasing.
C14_NormalizeTowardZero ==
    \A u \in Callers : SticksDone(u) =>
        LET v == api[u].m.v[1]
        IN  /\ data[throttleByte] = 128 + TowardZero(Clamp(v) * 127)
            /\ (v = -100 => data[throttleByte] = 1)
            /\ (v = 0 => data[throttleByte] = 128)
            /\ (v = 100 => data[throttleByte] = 255)
            /\ data[throttleByte] <= data[yawByte]

\* C14 amended: normalize(v) is 128 + c * 127 with its fraction dropped, which
\* is 128 + round_toward_zero(c * 127) for c >= 0 and one less than that for
\* c < 0 when c * 127 is not an integer; the three values and the monotony
\* are as stated.
C14_NormalizeDropsFraction ==
    \A u \in Callers : SticksDone(u) =>
        LET v == api[u].m.v[1]
            x == Clamp(v) * 127
        IN  /\ data[throttleByte] =
                   128 + TowardZero(x) - (IF x < 0 /\ x % 100 # 0 THEN 1 ELSE 0)
            /\ (v = -100 => data[throttleByte] = 1)
            /\ (v = 0 => data[throttleByte] = 128)
            /\ (v = 100 => data[throttleByte] = 255)
            /\ data[throttleByte] <= data[yawByte]

\* Sticks(-0.5, -0.49, 0, 0) has written its bytes
C14_Witness ==
    \E u \in Callers :
        /\ SticksDone(u)
        /\ api[u].m.v[1] = -50
        /\ data[throttleByte] = 64
        /\ data[yawByte] = 65

\* the closure of Sticks(0.5, -0.5, 1.0, -1.0) runs
SticksScenarioStep ==
    \E u \in Callers :
        /\ api[u].op = "Sticks" /\ api[u].m.v = <<50, -50, 100, -100>>
        /\ api[u].at = "f" /\ api'[u].at = "crc"

\* C15 as stated: Sticks(0.5, -0.5, 1.0, -1.0) yields roll = 0x01,
\* pitch = 0xFF, throttle = 0xC0, yaw = 0x40 and leaves the flags byte as it is.
C15_SticksScenario ==
    [][SticksScenarioStep =>
          /\ data'[rollByte] = 1 /\ data'[pitchByte] = 255
          /\ data'[throttleByte] = 192 /\ data'[yawByte] = 64
          /\ data'[flagsByte] = data[flagsByte]]_vars

\* C15 amended: Sticks(0.5, -0.5, 1.0, -1.0) yields roll = 0x01, pitch = 0xFF,
\* throttle = 0xBF, yaw = 0x40 (each byte being 128 + v * 127 with the
\* fraction dropped) and leaves the flags byte as it is.
C15_SticksScenarioBF ==
    [][SticksScenarioStep =>
          /\ data'[rollByte] = 1 /\ data'[pitchByte] = 255
          /\ data'[throttleByte] = 191 /\ data'[yawByte] = 64
          /\ data'[flagsByte] = data[flagsByte]]_vars

\* the closure of Sticks(0.5, -0.5, 1.0, -1.0) has run on a buffer with a flag set
C15_Witness ==
    \E u \in Callers :
        /\ api[u].op = "Sticks" /\ api[u].m.v = <<50, -50, 100, -100>>
        /\ api[u].at = "crc"
        /\ data[flagsByte] # 0
        /\ SticksOf(data) = <<1, 255, 191, 64>>

\* the CRC as a register of eight bits (bit 7 the most significant), all ones
\* at the start; for every byte in order and every bit of it from bit 7 down
\* to bit 0 the register is rotated left by one and the data bit is XORed
\* into its lowest bit
BitSerialCrc(bytes) ==
    LET reg[n \in 0..64] ==
            IF n = 0
            THEN [j \in 0..7 |-> 1]
            ELSE LET r == reg[n - 1]
                     bit == BitAt(bytes[(n - 1) \div 8], 7 - ((n - 1) % 8))
                 IN  [j \in 0..7 |-> IF j = 0 THEN (r[7] + bit) % 2 ELSE r[j - 1]]
        w(j) == reg[64][j] * Pow2(j)
    IN  w(0) + w(1) + w(2) + w(3) + w(4) + w(5) + w(6) + w(7)

\* the values a byte b is changed to: each single bit flipped, and the four
\* values 0x00, 0xFF, 0x66 and 0x99
Changed(b) ==
    ({IF BitAt(b, j) = 1 THEN b - Pow2(j) ELSE b + Pow2(j) : j \in 0..7}
        \cup {0, 255, 102, 153}) \ {b}

\* no update is running, and the buffer is as NewDriver made it or as the
\* update of a call that is returning left it
FreshFrame ==
    /\ ~Writing
    /\ calls = 0 \/ \E u \in Callers : api[u].at = "ret"

\* C16: whenever no update is running, byte 6 of the buffer is the bit-serial
\* CRC (start 0xFF, rotate left by one, XOR the data bit, most significant bit
\* first) of the buffer with byte 6 zeroed, and isValid holds; the frame of a
\* new driver is 66 80 80 80 80 00 00 99 and is valid; changing any single
\* byte of such a valid frame makes isValid fail.
C16_CrcStoredAndChecked ==
    /\ ~Writing => /\ data[crcByte] = BitSerialCrc([data EXCEPT ![crcByte] = 0])
                   /\ isValid(data)
    /\ calls = 0 => /\ [k \in 1..8 |-> data[k - 1]]
                         = <<102, 128, 128, 128, 128, 0, 0, 153>>
                    /\ isValid(data)
    /\ FreshFrame => \A k \in 0..7 : \A b \in Changed(data[k]) :
                         ~isValid([data EXCEPT ![k] = b])

\* a call returns from an update that left sticks away from neutral, a flag
\* set and a CRC byte that is not zero
C16_Witness ==
    /\ FreshFrame
    /\ SticksOf(data) # <<128, 128, 128, 128>>
    /\ data[flagsByte] # 0
    /\ data[crcByte] \notin {0, 255}

\* the frame f carries the mutation of the call recorded in r
Carries(f, r) ==
    CASE r.op = "Sticks" ->
             SticksOf(f) = <<normalize(r.m.v[4]), normalize(r.m.v[3]),
                             normalize(r.m.v[1]), normalize(r.m.v[2])>>
      [] r.op = "Hover" -> SticksOf(f) = <<128, 128, 128, 128>>
      [] r.op = "CompassOn" -> HasFlag(f[flagsByte], compassFlag)
      [] r.op = "CompassOff" -> ~HasFlag(f[flagsByte], compassFlag)
      [] OTHER -> TRUE

\* C17: a datagram the radio loop writes once a call of Sticks, Hover,
\* CompassOn (setFlag) or CompassOff (clearFlag) has finished its update, and
\* before any later call, is the buffer as it is then and carries the mutation
\* of that call.
C17_WritesCarryMutation ==
    [][\A g \in Radios :
          (radio[g].pc = "tick" /\ radio'[g].pc = "select")
              => /\ radio'[g].sent = data
                 /\ \A u \in Callers :
                       api[u].at = "ret" => Carries(radio'[g].sent, api[u])]_vars

\* the radio loop has written a frame with the sticks that a Sticks call,
\* which is returning, has set
C17_Witness ==
    \E g \in Radios, u \in Callers :
        /\ radio[g].pc = "select" /\ radio[g].sent # NoFrame
        /\ api[u].op = "Sticks" /\ api[u].at = "ret"
        /\ SticksOf(radio[g].sent) # <<128, 128, 128, 128>>
        /\ Carries(radio[g].sent, api[u])

\* C18: Halt never waits on a radio loop that cannot take its stop signal
\* because the error callback it has called does not return.
C18_HaltDespiteBlockedCallback ==
    \A u \in Callers, g \in Radios :
        ~(api[u].op = "Halt" /\ api[u].at = "send" /\ radio[g].pc = "blocked")

\* C19: the deferred clear of a pulse made before a Halt changes no flag of
\* the buffer once a later Start has returned: it cannot clear a flag pulsed
\* in the new session.
C19_OldClearLeavesNewSession ==
    [][\A i \in Timers :
          (timers[i].old /\ lastLife = "Start"
              /\ timers[i].pc = "f" /\ timers'[i].pc = "crc")
                 => data'[flagsByte] = data[flagsByte]]_vars

\* C20: portByCmd sends replayVideo (0x0009), downloadVideo (0x0012) and
\* keepAlive (0x0001) to TCP port 7060 and every other command to 8060, and the
\* connection an operation has dialled is on the port of its request command
C20_PortOfRequest ==
    vtx.pc \in {"req", "res", "close"}
        => vtx.port = (IF vtx.cmd \in {1, 9, 18} THEN 7060 ELSE 8060)

\* ReplayVideo has dialled with the download command and sent its replay request
C20_Witness ==
    /\ vtx.op = "ReplayVideo" /\ vtx.pc = "res"
    /\ vtx.dial = 18 /\ vtx.cmd = 9 /\ vtx.port = 7060
    /\ 9 \in {vtx.sent[k] : k \in 1 .. Len(vtx.sent)}

HeaderOf(c) ==
    /\ Len(c.header) = 46
    /\ SubSeq(c.header, 1, 10) = <<108, 101, 119, 101, 105, 95, 99, 109, 100, 0>>
    /\ Uint32(SubSeq(c.header, 11, 14)) = c.action
    /\ \A i \in (1 .. 8) \ {3} :
          Uint32(SubSeq(c.header, 11 + 4 * i, 14 + 4 * i)) = 0

\* C21: a LeweiCmd built by NewLeweiCmd(cmd) and any AddPayload calls has a
\* 46-byte header beginning with lewei_cmd\0, slot 0 equal to cmd, slots other
\* than 0 and 3 zero, and slot 3 equal to the number of bytes in the payload
C21_HeaderMatchesPayload ==
    /\ HeaderOf(lewei)
    /\ Uint32(SubSeq(lewei.header, 23, 26)) = Len(lewei.payload)

\* a frame has been read in this step
Read == vtx.pc = "res" /\ vtx'.nrecv = vtx.nrecv + 1

\* the step has read a keep-alive frame and left everything else as it was
Discarded == vtx' = [vtx EXCEPT !.last = vtx'.last, !.nrecv = vtx.nrecv + 1]

\* the step has read a frame of the awaited command and, in Action with a
\* callback, handed its payload to the callback
Answered ==
    (vtx.op = "Action" /\ vtx.cb)
        => vtx'.cbs = vtx.cbs + 1 /\ vtx'.got = vtx'.last.pl /\ vtx'.out = "ok"

\* C22 as stated: Res(cmd) discards every frame whose slot 0 is keepAlive (1)
\* and keeps reading, and returns the payload of the first other frame when
\* its command is cmd
C22_ResSkipsKeepAlive ==
    [][Read => /\ (vtx'.last.cmd = 1 => Discarded)
               /\ (vtx'.last.cmd # 1 /\ vtx'.last.cmd = vtx.want => Answered)]_vars

\* C22 amended: Res(cmd) for cmd other than keepAlive discards every frame
\* whose slot 0 is keepAlive (1) and keeps reading, and Res(cmd) for any cmd
\* returns the payload of the first frame it does not discard when the
\* command of that frame is cmd
C22_ResSkipsKeepAliveForOthers ==
    [][Read => /\ (vtx'.last.cmd = 1 /\ vtx.want # 1 => Discarded)
               /\ (vtx'.last.cmd = vtx.want => Answered)]_vars

\* Action with a callback has read a keep-alive echo and then its response
C22_Witness ==
    /\ vtx.op = "Action" /\ vtx.cb /\ vtx.want # 1
    /\ vtx.nrecv = 2 /\ vtx.last.cmd = vtx.want
    /\ vtx.cbs = 1 /\ vtx.got.body = <<42>>

\* C23: when a received frame has slot 0 = 0, Res stops reading and returns an
\* empty payload (Action hands just that to its callback), and the read loop
\* of DownloadVideo and of ReplayVideo ends on that empty payload: the call
\* leaves its loop without failing
C23_ZeroCommandEndsLoop ==
    (vtx.nrecv > 0 /\ vtx.last.cmd = 0 /\ ~vtx.last.err /\ vtx.want # 0)
        => /\ vtx.pc \in {"close", "done"}
           /\ vtx.op = "Action" /\ vtx.cb => vtx.got.empty
           /\ vtx.op \in {"DownloadVideo", "ReplayVideo"} => vtx.out = "ok"

\* C24: a failed read of a response, and a response of an unexpected command,
\* reach the caller of Res / Action as an error (the call ends abnormally) and
\* are never handed on as a response payload to the callback
C24_ReadFailurePropagates ==
    (vtx.nrecv > 0 /\ (vtx.last.err \/ vtx.last = Unexpected(vtx.want)))
        => /\ vtx.pc \in {"close", "done"}
           /\ vtx.out = "panic"
           /\ vtx.cbs = 0

\* the writes of command cmd on the connection of the operation
Written(cmd) == Cardinality({k \in 1 .. Len(vtx.sent) : vtx.sent[k] = cmd})

\* C25: once Action(cmd, payload, callback) has dialled and is over, it has
\* sent exactly one request of cmd; if it returned, the callback was invoked
\* exactly once, and with the payload of the response of command cmd when Res
\* returned on one; on return and on abort the keep-alive goroutine of its
\* connection has been told to close it and closes it at most once; and no
\* earlier connection is still in use
C25_ActionCycle ==
    (vtx.op = "Action" /\ vtx.pc = "done" /\ vtx.out # "nodial")
        => /\ vtx.cmd # keepAliveCmd => Written(vtx.cmd) = 1
           /\ vtx.cmd = keepAliveCmd => Written(vtx.cmd) >= 1
           /\ vtx.out = "ok" /\ vtx.cb
                 => vtx.cbs = 1 /\ (vtx.last.cmd = vtx.cmd => vtx.got = vtx.last.pl)
           /\ vtx.out = "panic" => vtx.cbs = 0
           /\ \A c \in 1 .. vtx.conn :
                 vtx.conns[c].ka \in {"stopping", "done"} /\ vtx.conns[c].closes <= 1

\* a second Action, on a connection of its own, has handed the payload of its
\* response to the callback and returned; the first connection is closed
C25_Witness ==
    /\ vtx.op = "Action" /\ vtx.pc = "done" /\ vtx.out = "ok"
    /\ vtx.cb /\ vtx.cbs = 1 /\ vtx.got.body = <<42>>
    /\ vtx.conn = 2 /\ vtx.conns[1].st = "closed"

\* a step that writes to the connection is taken before the close function
\* has handed over stop, and writes to the connection of the operation
WritesBeforeStop ==
    Len(vtx'.sent) > Len(vtx.sent)
        => /\ vtx.conn > 0 /\ vtx'.conn = vtx.conn
           /\ vtx.conns[vtx.conn].st = "open" /\ vtx.conns[vtx.conn].ka = "select"

ClosedOnce ==
    \A c \in Conns :
        /\ vtx.conns[c].closes <= 1
        /\ vtx.conns[c].st = "closed" <=> vtx.conns[c].closes = 1
        /\ vtx.conns[c].ka = "done" => vtx.conns[c].st = "closed"

\* C26: the keep-alive task writes its requests (command 1) on the socket it
\* was started for and only until the close function has been called; after
\* that it sends nothing more, stops, and the socket is closed exactly once
C26_KeepAliveTask ==
    /\ [][WritesBeforeStop]_vars
    /\ []ClosedOnce
    /\ \A c \in Conns :
          (vtx.conns[c].ka = "stopping")
              ~> (vtx.conns[c].ka = "done" /\ vtx.conns[c].closes = 1)

\* a keep-alive was written after the request of another command, the close
\* function was called and the socket is closed
C26_Witness ==
    /\ vtx.pc = "done" /\ vtx.conn = 1 /\ vtx.cmd # 1
    /\ vtx.sent = <<vtx.cmd, 1>>
    /\ vtx.conns[1].st = "closed" /\ vtx.conns[1].closes = 1

\* DownloadVideo has taken a start frame, then chunk frames only, then an end
\* frame declaring the sum of the chunk sizes, all with the requested name
FedWholeFile ==
    /\ vtx.op = "DownloadVideo" /\ Len(vtx.types) >= 2
    /\ vtx.types[1] = 1 /\ vtx.types[Len(vtx.types)] = 3
    /\ \A k \in 2 .. Len(vtx.types) - 1 : vtx.types[k] = 2
    /\ vtx.last.pl.type = 3 /\ vtx.last.pl.fsize = Len(vtx.cat)

\* C27: fed a start frame, N chunk frames and an end frame declaring the sum
\* of the chunk sizes, all with the requested name, DownloadVideo ends
\* successfully and the output file holds exactly the chunks one after the
\* other, whatever it held before
C27_DownloadWritesChunks ==
    FedWholeFile => /\ vtx.pc \in {"close", "done"} /\ vtx.out = "ok"
                    /\ vtx.file = vtx.cat

\* C28: on an end frame (type 3) DownloadVideo stops reading and leaves its
\* loop, whether or not the running byte count equals the declared file size
C28_EndFrameExits ==
    (vtx.op = "DownloadVideo" /\ vtx.nrecv > 0
        /\ vtx.last.cmd = vtx.want /\ ~vtx.last.pl.empty
        /\ vtx.last.pl.name = RequestedName /\ vtx.last.pl.type = 3)
            => vtx.pc \in {"close", "done"} /\ vtx.out = "ok"

\* the step has read a download frame with another file name
Mismatch ==
    /\ Read /\ vtx.op = "DownloadVideo"
    /\ vtx'.last.cmd = vtx.want /\ ~vtx'.last.pl.empty
    /\ vtx'.last.pl.name # RequestedName

\* C29: on a download frame whose file name is not the requested one
\* DownloadVideo aborts with the mismatch error and writes nothing of that
\* frame to the file, and the connection is closed all the same
C29_MismatchAborts ==
    /\ [][Mismatch => /\ vtx'.pc = "close" /\ vtx'.out = "panic"
                      /\ vtx'.why = "bad response"
                      /\ vtx'.file = vtx.file /\ vtx'.loaded = vtx.loaded]_vars
    /\ \A c \in Conns :
          (vtx.conn = c /\ vtx.why = "bad response")
              ~> (vtx.conns[c].st = "closed" /\ vtx.conns[c].closes = 1)

\* after a start and a chunk, a chunk frame with another name has aborted the
\* download: the file holds the first chunk only and the connection is closed
C29_Witness ==
    /\ vtx.op = "DownloadVideo" /\ vtx.why = "bad response" /\ vtx.pc = "done"
    /\ vtx.last.pl.type = 2 /\ vtx.last.pl.name = OtherName
    /\ vtx.types = <<1, 2>> /\ vtx.cat = <<5>> /\ vtx.file = <<5>>
    /\ vtx.conns[vtx.conn].st = "closed"

\* the step has read, in ReplayVideo, a replay frame of chunk size 0 or a
\* frame of type videoReplayEnd (0x0105)
ReplayEnd ==
    /\ Read /\ vtx.op = "ReplayVideo"
    /\ \/ vtx'.last.cmd = 261
       \/ vtx'.last.cmd = vtx.want /\ vtx'.last.pl.csize = 0

\* C30: ReplayVideo ends when it receives a frame of chunk size 0 or a frame
\* of type videoReplayEnd, and writes nothing to the sink from that frame on
C30_ReplayEnds ==
    [][ReplayEnd => vtx'.pc = "close" /\ vtx'.out = "ok" /\ vtx'.sink = vtx.sink]_vars

Captures(w) ==
    {i \in 1 .. Len(cam.log) : cam.log[i].ev = "capture" /\ cam.log[i].payload[1] = w}

Sleeps == {i \in 1 .. Len(cam.log) : cam.log[i].ev = "sleep"}

\* C32: StartVideo sends the capture command with payload [1,0,0,0,0] only
\* after IsCapturing has reported that the drone is not recording, StopVideo
\* sends [0,0,0,0,0] only after it has reported recording, CaptureVideo runs
\* StartVideo, the sleep and StopVideo in this order, and a capture-on command
\* never follows an answer of the drone that says it is recording
C32_CaptureGuarded ==
    /\ \A i \in 1 .. Len(cam.log) :
          cam.log[i].ev = "capture" =>
              /\ cam.log[i].payload \in {<<on, 0, 0, 0, 0>>, <<off, 0, 0, 0, 0>>}
              /\ i > 1 /\ cam.log[i - 1].ev = "check"
              /\ cam.log[i].payload[1] = on =>
                    (~cam.log[i - 1].capturing /\ cam.log[i - 1].reply # on
                     /\ cam.op \in {"StartVideo", "CaptureVideo"})
              /\ cam.log[i].payload[1] = off =>
                    (cam.log[i - 1].capturing /\ cam.op \in {"StopVideo", "CaptureVideo"})
    /\ cam.op = "CaptureVideo" =>
          /\ Cardinality(Sleeps) <= 1
          /\ \A i \in Captures(on), j \in Sleeps : i < j
          /\ \A i \in Captures(off), j \in Sleeps : j < i
          /\ Captures(off) # {} => Sleeps # {}
          /\ cam.phase = "stop" <=> Sleeps # {}

C32_Witness ==
    /\ cam.op = "CaptureVideo" /\ cam.pc = "done" /\ cam.out = "ok"
    /\ Captures(on) # {} /\ Captures(off) # {} /\ Sleeps # {}

\* what the caller of Action, DownloadVideo or ReplayVideo gets from a call
\* that has ended: the functions have no result, so a call returns nothing
\* or panics
Returned(v) == IF v.out = "panic" THEN "panic" ELSE "nothing"

\* C33: when the dial fails, Action, DownloadVideo and ReplayVideo write no
\* request, do not call the callback, start no keep-alive goroutine, and the
\* caller gets the dial error
C33_DialFailureSurfaces ==
    vtx.out = "nodial" =>
        /\ vtx.pc = "done"
        /\ vtx.sent = <<>>
        /\ vtx.cbs = 0
        /\ \A c \in Conns : vtx.conns[c].ka # "select"
        /\ Returned(vtx) = "error"

\* the addresses of the host inside 192.168.0.0/24
InSubnet ==
    {k \in 1 .. Len(cam.addrs) :
        Len(cam.addrs[k]) = 4 /\ SubSeq(cam.addrs[k], 1, 3) = <<192, 168, 0>>}

\* C34: getLocalIP returns the numerically smallest IPv4 address of the host
\* inside 192.168.0.0/24, and when the host has none the dial leaves the
\* local address to the system
C34_LocalAddress ==
    (cam.op = "newConn" /\ cam.pc = "done") =>
        IF InSubnet = {}
        THEN cam.laddr = <<>> /\ cam.out = "bound"
        ELSE /\ \E k \in InSubnet : cam.laddr = cam.addrs[k]
             /\ \A k \in InSubnet : cam.laddr[4] <= cam.addrs[k][4]

\* C35: a received header whose first ten bytes are not lewei_cmd\0 is
\* rejected: the frame is not taken as a response, its payload is handed
\* neither to the callback nor to the loop of the caller, and the call does
\* not end successfully on it
C35_BadTagRejected ==
    ~vtx.last.tag =>
        /\ ~(vtx.cbs > 0 /\ vtx.got = vtx.last.pl)
        /\ vtx.out # "ok"
        /\ vtx.sink = <<>>

\* C38: on a connection every request is written as its header directly
\* followed by its payload: no write of the keep-alive goroutine lies between
\* the header of a request and its payload
C38_FrameNotInterleaved ==
    \A i \in 1 .. Len(vtx.wire) :
        vtx.wire[i].part = "payload" =>
            (i > 1 /\ vtx.wire[i - 1] = Wrote("header", vtx.wire[i].cmd))

\* the step has read, in DownloadVideo, a chunk frame with the requested name
\* while no start frame has created the file
ChunkBeforeStart ==
    /\ Read /\ vtx.op = "DownloadVideo" /\ ~vtx.fopen
    /\ vtx'.last.cmd = vtx.want /\ ~vtx'.last.pl.empty
    /\ vtx'.last.pl.name = RequestedName /\ vtx'.last.pl.type = 2

\* C39: DownloadVideo writes chunk bytes to the output file only after a start
\* frame (type 1) has created it; a chunk frame (type 2) that comes before any
\* start frame aborts the call and nothing is written to any file; the running
\* byte count is always the sum of the sizes of the chunks written so far
C39_ChunksAfterStart ==
    [][/\ vtx'.file # vtx.file =>
              (vtx.op = "DownloadVideo" /\ vtx.fopen
               /\ \E k \in 1 .. Len(vtx.types) : vtx.types[k] = 1)
       /\ ChunkBeforeStart =>
              (vtx'.pc = "close" /\ vtx'.out = "panic" /\ vtx'.file = vtx.file
               /\ vtx'.loaded = 0)
       /\ (vtx'.op = "DownloadVideo" /\ vtx'.why # "invalid argument") =>
              vtx'.loaded = Len(vtx'.cat)]_vars

\* a chunk frame was the first frame of a download: the call has ended by a
\* panic and the file on disk is the one found there
C39_Witness ==
    /\ vtx.op = "DownloadVideo" /\ vtx.pc = "done" /\ vtx.why = "invalid argument"
    /\ vtx.types = <<2>> /\ vtx.last.pl.body = <<6, 7>>
    /\ vtx.file = <<9, 9, 9>> /\ vtx.loaded = 0

\* the goroutines started by radioLoop that have not returned; each holds its
\* connection open until its deferred conn.Close() has run
RadioTasks == {g \in Radios : radio[g].pc # "none"}

\* no call is in progress and every radio goroutine waits for a tick
Settled ==
    /\ \A u \in Callers : api[u].at = "idle"
    /\ \A g \in Radios : radio[g].pc \in {"none", "tick", "select"}

\* C36: whatever Start and Halt calls are made and however they interleave, a
\* driver never has more than one transmitter goroutine nor more than one
\* open UDP socket, and once all calls have returned and the goroutine has
\* settled, d.enabled is true exactly when a transmitter goroutine runs
C36_OneTransmitter ==
    Alive =>
        /\ Cardinality(RadioTasks) <= 1
        /\ Settled => (enabled <=> RadioTasks # {})

\* the goroutines between c.Lock() and c.Unlock() in update
InUpdate ==
    {<<"call", u>> : u \in {c \in Callers : api[c].at \in {"f", "crc"}}}
    \cup {<<"clear", i>> : i \in {t \in Timers : timers[t].pc \in {"f", "crc"}}}

\* the closure of the goroutine w and the statement of update it is at
ClosureOf(w) == IF w[1] = "call" THEN api[w[2]].m ELSE clearFlagMut(timers[w[2]].flag)

AtF(w) == IF w[1] = "call" THEN api[w[2]].at = "f" ELSE timers[w[2]].pc = "f"

\* C37: concurrent mutator calls are serializable: at most one goroutine is
\* inside update, the buffer changes only by the steps of that goroutine, its
\* closure runs on the buffer the last update left and its CRC on the buffer
\* its closure left, so the buffer is what the calls give one after the other
\* in the order they took the lock and no update of another call is lost
C37_UpdatesSerializable ==
    /\ [](Cardinality(InUpdate) <= 1)
    /\ [][/\ data' # data => InUpdate # {}
          /\ \A w \in InUpdate :
                /\ (w \in InUpdate' /\ AtF(w) = AtF(w)') => data' = data
                /\ (AtF(w) /\ ~AtF(w)') => data' = updateBody(ClosureOf(w), data)
                /\ (~AtF(w) /\ w \notin InUpdate') => data' = updateCrc(data)]_vars

\* Sticks waits for the lock while a deferred clear is inside update and the
\* bit of another flag, set by a later call, is in the buffer
C37_Witness ==
    /\ \E u \in Callers : api[u].op = "Sticks" /\ api[u].at = "lock"
    /\ \E i \in Timers : /\ timers[i].pc = "crc"
                         /\ \E f \in PulseFlags \cup {compassFlag} :
                               f # timers[i].flag /\ Flag(f)

\* the deferred clears i and j of two pulses on different flags are both
\* outstanding
Overlap(i, j) ==
    /\ i # j
    /\ timers[i].pc # "free" /\ timers[j].pc # "free"
    /\ timers[i].flag # timers[j].flag

\* C40: overlapping pulses on different flag bits are independent: the
\* deferred clear of one pulse clears its own bit and changes no other, no
\* step of that clear (firing, clearing, writing the crc, returning) changes
\* the bit or the timer of the other pulse, the deadline of the other clear is
\* moved by nothing but the passing of time, and the step that clears the bit
\* of a waiting pulse is never a step of the clear of the other bit
C40_PulsesIndependent ==
    [][\A i, j \in Timers :
          Overlap(i, j) =>
              /\ (timers[i].pc = "f" /\ timers'[i].pc = "crc") =>
                    /\ OnlyFlagChanged(data, data', timers[i].flag)
                    /\ ~HasFlag(data'[flagsByte], timers[i].flag)
              /\ (timers'[i].pc # timers[i].pc) =>
                    /\ HasFlag(data'[flagsByte], timers[j].flag) = Flag(timers[j].flag)
                    /\ timers'[j] = timers[j]
              /\ (/\ timers[j].pc = "wait" /\ Flag(timers[j].flag)
                  /\ ~HasFlag(data'[flagsByte], timers[j].flag)) =>
                    timers'[i] = timers[i]
              /\ (timers[j].pc = "wait" /\ timers'[j].pc = "wait") =>
                    /\ timers'[j].flag = timers[j].flag
                    /\ timers'[j].left \in {timers[j].left, timers[j].left - 1}
              /\ (timers[j].pc = "wait" /\ timers'[j].pc # "wait") => timers[j].left = 0]_vars

\* the clear of one pulse has just cleared its bit while the pulse of another
\* flag, issued later, is still set and its clear still waits
C40_Witness ==
    \E i, j \in Timers :
        /\ Overlap(i, j)
        /\ timers[i].pc = "crc" /\ ~Flag(timers[i].flag)
        /\ timers[j].pc = "wait" /\ timers[j].left > 0 /\ Flag(timers[j].flag)

====
